---- MODULE Spec2Model ----
(***************************************************************************)
(* The multi-device orchestration of netauto (src/netauto/tasks.py):       *)
(* ConfigurationTask.configure_device, configure_multiple_devices and      *)
(* backup_configs, over the NetworkDevice session of src/netauto/connect.py*)
(* and the ConfigValidator of src/netauto/validators.py.                   *)
(*                                                                         *)
(* One behaviour is one ConfigurationTask on which one batch operation is  *)
(* called.  Every blocking call on a device session (connect,              *)
(* send_config_set, save_config, the validation commands, send_command,    *)
(* disconnect) is one step of the device operation that makes it; the      *)
(* outcome of the call is the environment's choice.  In parallel mode the  *)
(* steps of the device operations run by the pool's workers interleave.    *)
(*                                                                         *)
(* The parts that are also used on their own have a specification each:    *)
(* SuiteSpec (run_validation_suite), ValidatorSpec (verify_ip_connectivity *)
(* and get_device_info), DeviceSpec (the methods of one NetworkDevice) and *)
(* CliSpec (one run of src/cli.py).                                        *)
(***************************************************************************)
EXTENDS Integers, Sequences, FiniteSets, TLC

(* ------------------------------ bounds --------------------------------- *)

\* the longest device list of a task
MaxDevices == 2

\* the largest max_workers of a parallel batch
MaxWorkers == 2

(* ------------------------------ values --------------------------------- *)

\* Python's None for an optional argument
None == "None"

\* device_info.get("host", "unknown")
UnknownHost == "unknown"

\* the host of the i-th descriptor that has one (hosts are unique in a batch)
HostName(i) == "192.168.1." \o ToString(i)

\* A device descriptor: whether it has the key "host", and whether it carries
\* both "username" and "password".
Descriptor(i, has_host, has_creds) ==
    [host |-> IF has_host THEN HostName(i) ELSE None, has_creds |-> has_creds]

\* the descriptors a device list may hold at position i: a complete one, one
\* with no "host", one with no "username" or "password"
Descriptors(i) ==
    { Descriptor(i, TRUE, TRUE), Descriptor(i, FALSE, TRUE), Descriptor(i, TRUE, FALSE) }

\* the positions of a device list whose descriptor is not complete
Incomplete(ds) == { i \in DOMAIN ds : ds[i] # Descriptor(i, TRUE, TRUE) }

\* the device lists of a task: up to MaxDevices descriptors, at most one of
\* them incomplete
DeviceLists ==
    UNION { { ds \in [1..n -> UNION { Descriptors(i) : i \in 1..n }] :
                /\ \A i \in 1..n : ds[i] \in Descriptors(i)
                /\ Cardinality(Incomplete(ds)) <= 1 } : n \in 0..MaxDevices }

\* literal command lists (None and [] are both "no commands")
CommandLists == { <<>>, <<"a", "b">> }

TemplateNames == { None, "base_config.j2" }

\* a per-device variable mapping: {} or a non-empty mapping
VarMappings == { "empty", "vars" }

\* template_vars_list for n devices: none, or one mapping per device where the
\* last may be {}, or one mapping too few
VarsLists(n) ==
    { <<>> } \cup { [j \in 1..k |-> "vars"] : k \in { k \in { n - 1, n } : k >= 1 } }
             \cup { [j \in 1..n |-> IF j = n THEN "empty" ELSE "vars"] }

\* the texts the named template may render to, as sequences of characters
RenderedTexts == { <<>>, <<"x", "\n", "y", "\n">> }

\* the template directory has no file of the given name
TemplateMissing == <<"TemplateNotFound">>

\* the named template has not been read yet
TemplateUnread == <<"unread">>

\* what the template directory may hold under the given name
TemplateFiles == { TemplateMissing } \cup RenderedTexts

\* the running configuration of the device at a host
RunningConfig(host) == "hostname " \o host

IsSpace(c) == c \in { " ", "\n" }

RECURSIVE LStrip(_)
LStrip(t) == IF t # <<>> /\ IsSpace(Head(t)) THEN LStrip(Tail(t)) ELSE t

RECURSIVE RStrip(_)
RStrip(t) ==
    IF t # <<>> /\ IsSpace(t[Len(t)]) THEN RStrip(SubSeq(t, 1, Len(t) - 1)) ELSE t

\* str.strip()
Strip(t) == RStrip(LStrip(t))

RECURSIVE SplitAcc(_, _, _)
SplitAcc(t, cur, acc) ==
    IF t = <<>> THEN Append(acc, cur)
    ELSE IF Head(t) = "\n" THEN SplitAcc(Tail(t), "", Append(acc, cur))
    ELSE SplitAcc(Tail(t), cur \o Head(t), acc)

\* str.split("\n"): the lines of a text, the empty text giving one empty line
SplitLines(t) == SplitAcc(t, "", <<>>)

(* ------------------------------- state --------------------------------- *)

VARIABLES
    devices,       \* self.devices
    dry_run,       \* self.dry_run
    task_results,  \* self.results
    env_creds,     \* DEVICE_USERNAME and DEVICE_PASSWORD are both set (they are
                   \* read only for a descriptor without its own credentials)
    call,          \* the batch operation called on the task and its arguments
    main_pc,       \* where the calling thread is in the batch operation
    idx,           \* the index of the loop over self.devices (1-based)
    futures,       \* the host recorded for each submitted future, in submission order
    yielded,       \* the futures as_completed has yielded
    results,       \* the local list `results`
    summary,       \* the returned summary
    op,            \* the device operation of each device: its position, session, result
    files,         \* the backup directory: file name -> content
    template_file, \* the named template as the template directory holds it,
                   \* from the first time it is read
    clock,         \* the second last read from the clock by time.strftime
    suite,         \* a call of ConfigValidator.run_validation_suite: its
                   \* argument, its loop index, its local `results`
    validator_call,\* a direct call of verify_ip_connectivity or get_device_info:
                   \* the answers of the session and the outcome of the call
    network_device,\* a NetworkDevice used directly: self.connection, the
                   \* connections netmiko opened for it, the last method called
    cli            \* one run of the command line (src/cli.py): its arguments,
                   \* what it printed, its exit status

\* the state of a ConfigurationTask and of its batch operation
batch == << devices, dry_run, task_results, env_creds, call, main_pc, idx, futures,
            yielded, results, summary, op, files, template_file, clock >>

\* the state of the parts that are also used without a ConfigurationTask
components == << suite, validator_call, network_device, cli >>

vars == << devices, dry_run, task_results, env_creds, call, main_pc, idx, futures,
           yielded, results, summary, op, files, template_file, clock, suite,
           validator_call, network_device, cli >>

N == Len(devices)

NoCall == [operation |-> None]

\* no summary has been returned yet
NoSummary == [returned |-> FALSE]

\* the empty dict self.results is constructed with
EmptyDict == [empty |-> TRUE]

\* a result that starts as a success
InitialResultSuccess(host) ==
    [host |-> host, success |-> TRUE, message |-> <<>>, output |-> <<>>,
     validation |-> {}]

\* the result a device operation starts from
InitialResult(host) ==
    [host |-> host, success |-> FALSE, message |-> <<>>, output |-> <<>>,
     validation |-> {}]

InitialBackupResult(host) ==
    [host |-> host, success |-> FALSE, message |-> <<>>, file |-> None]

\* device_info.get("host", "unknown")
HostOf(d) == IF d.host = None THEN UnknownHost ELSE d.host

\* no exception
NoError == [kind |-> None, text |-> ""]

\* a device operation that has not been called: where it is, its local
\* `device` (the NetworkDevice object it works on), the state of its session
\* (device.connection), the calls it has made on its collaborators, its
\* locals config_commands, config and e, and its result
NewOp ==
    [pc |-> "new", device |-> None, session |-> "none", calls |-> <<>>,
     commands |-> <<>>, config |-> None, error |-> NoError,
     result |-> [host |-> None]]

\* run_validation_suite has not been called
NoSuite == [pc |-> "idle", checks |-> <<>>, pos |-> 0, results |-> <<>>, log |-> <<>>]

\* no validator method has been called directly
NoValidatorCall == [pc |-> "idle"]

\* no NetworkDevice is used directly
NoNetworkDevice == [pc |-> "idle"]

\* the command line has not been run
NoCli == [pc |-> "idle"]

Init ==
    /\ devices \in DeviceLists
    /\ dry_run \in BOOLEAN
    /\ env_creds \in IF \E i \in DOMAIN devices : ~devices[i].has_creds
                    THEN BOOLEAN ELSE { TRUE }
    /\ task_results = EmptyDict
    /\ call = NoCall
    /\ main_pc = "idle"
    /\ idx = 1
    /\ futures = <<>>
    /\ yielded = {}
    /\ results = <<>>
    /\ summary = NoSummary
    /\ op = [i \in 1..Len(devices) |-> NewOp]
    /\ files = <<>>
    /\ template_file = TemplateUnread
    /\ clock = 0
    /\ suite = NoSuite
    /\ validator_call = NoValidatorCall
    /\ network_device = NoNetworkDevice
    /\ cli = NoCli

(* ------------------------- the device session ------------------------- *)

\* an exception: its class and str(e)
Exc(kind, text) == [kind |-> kind, text |-> text]

\* a constructor that goes on without credentials
NewDeviceNoCredentialCheck(d) ==
    IF d.host = None THEN Exc("KeyError", "'host'") ELSE Exc(None, "")

\* NetworkDevice.__init__, called with host=device_info["host"] and the
\* descriptor's credentials: the exception it ends with, or None.
NewDevice(d) ==
    IF d.host = None THEN Exc("KeyError", "'host'")
    ELSE IF ~d.has_creds /\ ~env_creds
         THEN Exc("ValueError", "Missing required credentials")
    ELSE Exc(None, "")

\* one NetworkDevice object kept for every device operation
NewSessionShared(i) == "NetworkDevice"

\* NetworkDevice(...) in a device operation: the object constructed by the
\* i-th device operation, a new one at every call
NewSession(i) == "NetworkDevice " \o ToString(i)

\* a constructor that reads the credentials of the environment twice
NewDeviceCallsTwice(d) ==
    IF d.host # None /\ ~d.has_creds
    THEN <<"get_device_credentials", "get_device_credentials">> ELSE <<>>

\* the session calls NetworkDevice.__init__ makes before the session exists
NewDeviceCalls(d) ==
    IF d.host # None /\ ~d.has_creds THEN <<"get_device_credentials">> ELSE <<>>

\* NetworkDevice.connect: True, or DeviceConnectionError for every failure
ConnectOutcomes == { Exc(None, ""), Exc("DeviceConnectionError", "Connection timeout") }

\* NetworkDevice.send_config_set: the output, or DeviceConnectionError
SendConfigSetOutcomes ==
    { Exc(None, ""), Exc("DeviceConnectionError", "Error applying configuration") }

\* NetworkDevice.save_config: the output, or the library's own exception
SaveConfigOutcomes == { Exc(None, ""), Exc("Exception", "save failed") }

\* NetworkDevice.send_command: the output, or DeviceConnectionError
SendCommandOutcomes ==
    { Exc(None, ""), Exc("DeviceConnectionError", "Error executing command") }

\* TemplateManager.render_template: the text, or TemplateNotFound re-raised
RenderTemplate(file) ==
    IF file = TemplateMissing THEN Exc("TemplateNotFound", "base_config.j2")
    ELSE Exc(None, "")

\* ConfigValidator.verify_connectivity: True, or ValidationError
VerifyConnectivityOutcomes ==
    { Exc(None, ""), Exc("ValidationError", "Connectivity check failed") }

\* ConfigValidator.get_device_info: the facts, or {} when a command failed
DeviceInfos == { "facts", "{}" }

\* open(file_path, "w") and f.write(config): done, or OSError
WriteOutcomes == { Exc(None, ""), Exc("OSError", "Permission denied") }

\* device.connect() of a device operation (configure or backup) never
\* returns: the operation, and the thread that runs it, stay in the call
ConnectHangs(i) ==
    /\ op[i].pc = "running"
    /\ NewDevice(devices[i]).kind = None
    /\ op' = [op EXCEPT ![i].pc = "hung",
                        ![i].device = NewSession(i),
                        ![i].calls = @ \o NewDeviceCalls(devices[i]) \o <<"connect">>]
    /\ UNCHANGED << components, devices, dry_run, task_results, env_creds, call, main_pc, idx,
                    futures, yielded, results, summary, files, template_file, clock >>

(* ------------------------- configure_device --------------------------- *)

DryRunOutput == "DRY RUN - No changes applied"

\* the except clauses of configure_device: the message of a failed result
ExceptMessage(e) ==
    IF e.kind = "DeviceConnectionError" THEN <<"Connection error: ", e.text>>
    ELSE IF e.kind = "ValidationError" THEN <<"Validation error: ", e.text>>
    ELSE <<"Error: ", e.text>>

\* a handler that catches the exception and leaves the message as it was
RaiseNoMessage(i, cs, e) ==
    op' = [op EXCEPT ![i].pc = "returned",
                     ![i].calls = @ \o cs,
                     ![i].error = e]

\* configure_device leaves its try block with exception e, after making the
\* calls cs: the handler sets the message and the result is returned.
Raise(i, cs, e) ==
    op' = [op EXCEPT ![i].pc = "returned",
                     ![i].calls = @ \o cs,
                     ![i].error = e,
                     ![i].result.message = ExceptMessage(e)]

\* the template variables configure_multiple_devices hands to device i
TemplateVars(i) ==
    IF call.template_vars_list # <<>> /\ i <= Len(call.template_vars_list)
    THEN call.template_vars_list[i] ELSE None

\* `if template_name and template_vars`
UsesTemplate(i) ==
    call.template_name # None /\ TemplateVars(i) \notin { None, "empty" }

\* an apply stage that is followed by the validation before the save
AfterApplyValidateFirst ==
    IF call.validate_after /\ ~dry_run THEN "validate"
    ELSE IF ~dry_run /\ call.save_config THEN "save"
    ELSE "disconnect"

\* an apply stage that is followed by the validation in dry-run too
AfterApplyValidatesDryRun ==
    IF ~dry_run /\ call.save_config THEN "save"
    ELSE IF call.validate_after THEN "validate"
    ELSE "disconnect"

\* the stage after the apply stage
AfterApply ==
    IF ~dry_run /\ call.save_config THEN "save"
    ELSE IF call.validate_after /\ ~dry_run THEN "validate"
    ELSE "disconnect"

\* the stage after the save stage
AfterSave == IF call.validate_after /\ ~dry_run THEN "validate" ELSE "disconnect"

\* device = NetworkDevice(...); device.connect()
Connect(i) ==
    /\ call.operation = "configure"
    /\ op[i].pc = "running"
    /\ LET d == devices[i]
           e == NewDevice(d)
       IN IF e.kind # None THEN Raise(i, NewDeviceCalls(d), e)
          ELSE \E c \in ConnectOutcomes :
                 IF c.kind # None
                 THEN op' = [op EXCEPT ![i].pc = "returned",
                                       ![i].device = NewSession(i),
                                       ![i].calls = @ \o NewDeviceCalls(d) \o <<"connect">>,
                                       ![i].error = c,
                                       ![i].result.message = ExceptMessage(c)]
                 ELSE op' = [op EXCEPT ![i].pc = "apply",
                                       ![i].device = NewSession(i),
                                       ![i].session = "open",
                                       ![i].calls = @ \o NewDeviceCalls(d) \o <<"connect">>]
    /\ UNCHANGED << components, devices, dry_run, task_results, env_creds, call, main_pc, idx,
                    futures, yielded, results, summary, files, template_file, clock >>

\* a dry-run branch that transmits the commands all the same
ApplyDryRunSends(i, commands) ==
    op' = [op EXCEPT ![i].pc = AfterApply,
                     ![i].commands = commands,
                     ![i].calls = @ \o <<"send_config_set">>,
                     ![i].result.output = <<DryRunOutput>>]

\* a dry-run branch that leaves the output empty
ApplyDryRunNoMarker(i, commands) ==
    op' = [op EXCEPT ![i].pc = AfterApply, ![i].commands = commands]

\* the dry-run branch of the apply stage
ApplyDryRun(i, commands) ==
    op' = [op EXCEPT ![i].pc = AfterApply,
                     ![i].commands = commands,
                     ![i].result.output = <<DryRunOutput>>]

\* the apply stage once the commands are resolved and not empty
ApplyCommands(i, cs, commands) ==
    IF dry_run THEN ApplyDryRun(i, commands)
    ELSE \E s \in SendConfigSetOutcomes :
           IF s.kind # None
           THEN op' = [op EXCEPT ![i].pc = "returned",
                                 ![i].commands = commands,
                                 ![i].calls = @ \o cs \o <<"send_config_set">>,
                                 ![i].error = s,
                                 ![i].result.message = ExceptMessage(s)]
           ELSE op' = [op EXCEPT ![i].pc = AfterApply,
                                 ![i].commands = commands,
                                 ![i].calls = @ \o cs \o <<"send_config_set">>,
                                 ![i].result.output = <<"send_config_set output">>]

\* config_commands after `if template_name and template_vars`: the lines of
\* the rendered text, or the literal commands
ResolvedCommands(i, file) ==
    IF UsesTemplate(i) THEN SplitLines(Strip(file)) ELSE call.config_commands

\* an apply stage that does not check that there is a payload
ApplyNoPayloadCheck(i) ==
    /\ call.operation = "configure"
    /\ op[i].pc = "apply"
    /\ \E file \in IF template_file = TemplateUnread THEN TemplateFiles ELSE { template_file } :
         LET cs == IF UsesTemplate(i) THEN <<"render_template">> ELSE <<>>
         IN /\ template_file' = IF UsesTemplate(i) THEN file ELSE template_file
            /\ IF UsesTemplate(i) /\ RenderTemplate(file).kind # None
               THEN Raise(i, cs, RenderTemplate(file))
               ELSE ApplyCommands(i, cs, ResolvedCommands(i, file))
    /\ UNCHANGED << components, devices, dry_run, task_results, env_creds, call, main_pc, idx,
                    futures, yielded, results, summary, files, clock >>

\* the payload is resolved (a template rendered), checked and applied
Apply(i) ==
    /\ call.operation = "configure"
    /\ op[i].pc = "apply"
    /\ \E file \in IF template_file = TemplateUnread THEN TemplateFiles ELSE { template_file } :
         LET cs == IF UsesTemplate(i) THEN <<"render_template">> ELSE <<>>
         IN /\ template_file' = IF UsesTemplate(i) THEN file ELSE template_file
            /\ IF UsesTemplate(i) /\ RenderTemplate(file).kind # None
               THEN Raise(i, cs, RenderTemplate(file))
               ELSE IF ResolvedCommands(i, file) = <<>>
               THEN Raise(i, cs, Exc("ValueError",
                                     "No configuration commands or template provided"))
               ELSE ApplyCommands(i, cs, ResolvedCommands(i, file))
    /\ UNCHANGED << components, devices, dry_run, task_results, env_creds, call, main_pc, idx,
                    futures, yielded, results, summary, files, clock >>

\* save_output = device.save_config()
Save(i) ==
    /\ call.operation = "configure"
    /\ op[i].pc = "save"
    /\ \E s \in SaveConfigOutcomes :
         IF s.kind # None THEN Raise(i, <<"save_config">>, s)
         ELSE op' = [op EXCEPT ![i].pc = AfterSave,
                               ![i].calls = @ \o <<"save_config">>,
                               ![i].result.output = @ \o <<"\n", "save_config output">>]
    /\ UNCHANGED << components, devices, dry_run, task_results, env_creds, call, main_pc, idx,
                    futures, yielded, results, summary, files, template_file, clock >>

\* a validation stage that records a failed check and goes on
ValidateFailSoft(i) ==
    /\ call.operation = "configure"
    /\ op[i].pc = "validate"
    /\ \E v \in VerifyConnectivityOutcomes, info \in DeviceInfos :
         op' = [op EXCEPT ![i].pc = "disconnect",
                          ![i].calls = @ \o <<"verify_connectivity", "get_device_info">>,
                          ![i].result.validation =
                              { <<"connectivity", IF v.kind = None THEN "True" ELSE "False">>,
                                <<"device_info", info>> }]
    /\ UNCHANGED << components, devices, dry_run, task_results, env_creds, call, main_pc, idx,
                    futures, yielded, results, summary, files, template_file, clock >>

\* validator.verify_connectivity() and validator.get_device_info()
Validate(i) ==
    /\ call.operation = "configure"
    /\ op[i].pc = "validate"
    /\ \E v \in VerifyConnectivityOutcomes :
         IF v.kind # None THEN Raise(i, <<"verify_connectivity">>, v)
         ELSE \E info \in DeviceInfos :
                op' = [op EXCEPT ![i].pc = "disconnect",
                                 ![i].calls = @ \o <<"verify_connectivity", "get_device_info">>,
                                 ![i].result.validation =
                                     { <<"connectivity", "True">>, <<"device_info", info>> }]
    /\ UNCHANGED << components, devices, dry_run, task_results, env_creds, call, main_pc, idx,
                    futures, yielded, results, summary, files, template_file, clock >>

\* device.disconnect(), and the result is marked successful
Disconnect(i) ==
    /\ call.operation = "configure"
    /\ op[i].pc = "disconnect"
    /\ op' = [op EXCEPT ![i].pc = "returned",
                        ![i].session = "closed",
                        ![i].calls = @ \o <<"disconnect">>,
                        ![i].result.success = TRUE,
                        ![i].result.message = <<"Configuration applied successfully">>]
    /\ UNCHANGED << components, devices, dry_run, task_results, env_creds, call, main_pc, idx,
                    futures, yielded, results, summary, files, template_file, clock >>

(* ------------------------- backup_single_device ----------------------- *)

\* the handler of backup_single_device: every exception gives the same prefix
BackupRaise(i, cs, e) ==
    op' = [op EXCEPT ![i].pc = "returned",
                     ![i].calls = @ \o cs,
                     ![i].error = e,
                     ![i].result.message = <<"Backup failed: ", e.text>>]

\* device = NetworkDevice(...); device.connect()
BackupConnect(i) ==
    /\ call.operation = "backup"
    /\ op[i].pc = "running"
    /\ LET d == devices[i]
           e == NewDevice(d)
       IN IF e.kind # None THEN BackupRaise(i, NewDeviceCalls(d), e)
          ELSE \E c \in ConnectOutcomes :
                 IF c.kind # None
                 THEN op' = [op EXCEPT ![i].pc = "returned",
                                       ![i].device = NewSession(i),
                                       ![i].calls = @ \o NewDeviceCalls(d) \o <<"connect">>,
                                       ![i].error = c,
                                       ![i].result.message = <<"Backup failed: ", c.text>>]
                 ELSE op' = [op EXCEPT ![i].pc = "retrieve",
                                       ![i].device = NewSession(i),
                                       ![i].session = "open",
                                       ![i].calls = @ \o NewDeviceCalls(d) \o <<"connect">>]
    /\ UNCHANGED << components, devices, dry_run, task_results, env_creds, call, main_pc, idx,
                    futures, yielded, results, summary, files, template_file, clock >>

\* config = device.send_command("show running-config")
BackupRetrieve(i) ==
    /\ call.operation = "backup"
    /\ op[i].pc = "retrieve"
    /\ \E s \in SendCommandOutcomes :
         IF s.kind # None THEN BackupRaise(i, <<"send_command">>, s)
         ELSE op' = [op EXCEPT ![i].pc = "disconnect",
                               ![i].calls = @ \o <<"send_command">>,
                               ![i].config = RunningConfig(devices[i].host)]
    /\ UNCHANGED << components, devices, dry_run, task_results, env_creds, call, main_pc, idx,
                    futures, yielded, results, summary, files, template_file, clock >>

\* device.disconnect()
BackupDisconnect(i) ==
    /\ call.operation = "backup"
    /\ op[i].pc = "disconnect"
    /\ op' = [op EXCEPT ![i].pc = "write",
                        ![i].session = "closed",
                        ![i].calls = @ \o <<"disconnect">>]
    /\ UNCHANGED << components, devices, dry_run, task_results, env_creds, call, main_pc, idx,
                    futures, yielded, results, summary, files, template_file, clock >>

\* a file name made of the timestamp alone
BackupFileNameNoHost(host, timestamp) == "backup_" \o ToString(timestamp) \o ".cfg"

\* f"{host}_{timestamp}.cfg" under the backup directory
BackupFileName(host, timestamp) == host \o "_" \o ToString(timestamp) \o ".cfg"

\* open(file_path, "w"); f.write(config): the file is created or overwritten
WriteFile(fs, name, content) ==
    [n \in DOMAIN fs \cup { name } |-> IF n = name THEN content ELSE fs[n]]

\* the time is read, the file written and the result marked successful
BackupWrite(i) ==
    /\ call.operation = "backup"
    /\ op[i].pc = "write"
    /\ \E t \in { clock, clock + 1 }, w \in WriteOutcomes :
         LET name == BackupFileName(op[i].result.host, t)
         IN /\ clock' = t
            /\ IF w.kind # None
               THEN /\ BackupRaise(i, <<>>, w)
                    /\ files' = files
               ELSE /\ files' = WriteFile(files, name, op[i].config)
                    /\ op' = [op EXCEPT ![i].pc = "returned",
                                        ![i].result.success = TRUE,
                                        ![i].result.message =
                                            <<"Backup completed successfully">>,
                                        ![i].result.file = name]
    /\ UNCHANGED << components, devices, dry_run, task_results, env_creds, call, main_pc, idx,
                    futures, yielded, results, summary, template_file >>

(* ---------------------- the batch operations -------------------------- *)

\* the arguments configure_multiple_devices may be called with
ConfigureCalls ==
    { [operation |-> "configure", config_commands |-> cc, template_name |-> tn,
       template_vars_list |-> tv, save_config |-> sc, validate_after |-> va,
       parallel |-> par, max_workers |-> w] :
        cc \in CommandLists, tn \in TemplateNames, tv \in VarsLists(N),
        sc \in BOOLEAN, va \in BOOLEAN, par \in BOOLEAN, w \in 1..MaxWorkers }

\* the arguments backup_configs may be called with
BackupCalls ==
    { [operation |-> "backup", parallel |-> par, max_workers |-> w] :
        par \in BOOLEAN, w \in 1..MaxWorkers }

\* the device operations that have been entered and have not returned
InProgress == { i \in 1..N : op[i].pc \notin { "new", "queued", "returned" } }

\* the result a device operation of the called batch starts from
FirstResult(i) ==
    IF call.operation = "configure" THEN InitialResult(HostOf(devices[i]))
    ELSE InitialBackupResult(HostOf(devices[i]))

\* configure_multiple_devices is called: results = []
CallConfigure ==
    /\ main_pc = "idle"
    /\ \E c \in ConfigureCalls :
         /\ c.template_name = None => c.template_vars_list = <<>>
         /\ c.template_name # None => c.config_commands = <<>>
         /\ ~c.parallel => c.max_workers = 1
         /\ call' = c
         /\ main_pc' = IF c.parallel THEN (IF N = 0 THEN "collect" ELSE "submit")
                       ELSE "sequential"
    /\ UNCHANGED << components, devices, dry_run, task_results, env_creds, idx, futures, yielded,
                    results, summary, op, files, template_file, clock >>

\* backup_configs is called: the directory is made, results = []
CallBackup ==
    /\ main_pc = "idle"
    /\ \E c \in BackupCalls :
         /\ ~c.parallel => c.max_workers = 1
         /\ call' = c
         /\ main_pc' = IF c.parallel THEN (IF N = 0 THEN "collect" ELSE "submit")
                       ELSE "sequential"
    /\ UNCHANGED << components, devices, dry_run, task_results, env_creds, idx, futures, yielded,
                    results, summary, op, files, template_file, clock >>

\* executor.submit(...) for the next device; futures[future] = host
Submit ==
    /\ main_pc = "submit"
    /\ idx <= N
    /\ op' = [op EXCEPT ![idx].pc = "queued"]
    /\ futures' = Append(futures, HostOf(devices[idx]))
    /\ idx' = idx + 1
    /\ main_pc' = IF idx = N THEN "collect" ELSE "submit"
    /\ UNCHANGED << components, devices, dry_run, task_results, env_creds, call, yielded, results,
                    summary, files, template_file, clock >>

\* a pool that runs one task at a time whatever max_workers is
WorkerStartSerial(i) ==
    /\ op[i].pc = "queued"
    /\ \A j \in 1..(i - 1) : op[j].pc # "queued"
    /\ InProgress = {}
    /\ op' = [op EXCEPT ![i].pc = "running", ![i].result = FirstResult(i)]
    /\ UNCHANGED << components, devices, dry_run, task_results, env_creds, call, main_pc, idx,
                    futures, yielded, results, summary, files, template_file, clock >>

\* a pool that starts a thread for every submitted task
WorkerStartUnbounded(i) ==
    /\ op[i].pc = "queued"
    /\ \A j \in 1..(i - 1) : op[j].pc # "queued"
    /\ op' = [op EXCEPT ![i].pc = "running", ![i].result = FirstResult(i)]
    /\ UNCHANGED << components, devices, dry_run, task_results, env_creds, call, main_pc, idx,
                    futures, yielded, results, summary, files, template_file, clock >>

\* a pool whose threads run one task each and are not used again
WorkerStartNoReuse(i) ==
    /\ op[i].pc = "queued"
    /\ \A j \in 1..(i - 1) : op[j].pc # "queued"
    /\ Cardinality({ j \in 1..N : op[j].pc \notin { "new", "queued" } }) < call.max_workers
    /\ op' = [op EXCEPT ![i].pc = "running", ![i].result = FirstResult(i)]
    /\ UNCHANGED << components, devices, dry_run, task_results, env_creds, call, main_pc, idx,
                    futures, yielded, results, summary, files, template_file, clock >>

\* a worker of the pool takes the oldest queued task and enters the operation
WorkerStart(i) ==
    /\ op[i].pc = "queued"
    /\ \A j \in 1..(i - 1) : op[j].pc # "queued"
    /\ Cardinality(InProgress) < call.max_workers
    /\ op' = [op EXCEPT ![i].pc = "running", ![i].result = FirstResult(i)]
    /\ UNCHANGED << components, devices, dry_run, task_results, env_creds, call, main_pc, idx,
                    futures, yielded, results, summary, files, template_file, clock >>

\* a collection loop that keeps the successful results only
CollectSkipFailed(i) ==
    /\ main_pc = "collect"
    /\ i \notin yielded
    /\ op[i].pc = "returned"
    /\ yielded' = yielded \cup { i }
    /\ results' = IF op[i].result.success THEN Append(results, op[i].result) ELSE results
    /\ UNCHANGED << components, devices, dry_run, task_results, env_creds, call, main_pc, idx,
                    futures, summary, op, files, template_file, clock >>

\* a collection loop that keeps only the result it has just been given
CollectOverwrite(i) ==
    /\ main_pc = "collect"
    /\ i \notin yielded
    /\ op[i].pc = "returned"
    /\ yielded' = yielded \cup { i }
    /\ results' = <<op[i].result>>
    /\ UNCHANGED << components, devices, dry_run, task_results, env_creds, call, main_pc, idx,
                    futures, summary, op, files, template_file, clock >>

\* as_completed yields a finished future; its result is appended
Collect(i) ==
    /\ main_pc = "collect"
    /\ i \notin yielded
    /\ op[i].pc = "returned"
    /\ yielded' = yielded \cup { i }
    /\ results' = Append(results, op[i].result)
    /\ UNCHANGED << components, devices, dry_run, task_results, env_creds, call, main_pc, idx,
                    futures, summary, op, files, template_file, clock >>

\* the sequential loop calls the device operation of the next device
SequentialCall ==
    /\ main_pc = "sequential"
    /\ idx <= N
    /\ op[idx].pc = "new"
    /\ op' = [op EXCEPT ![idx].pc = "running", ![idx].result = FirstResult(idx)]
    /\ UNCHANGED << components, devices, dry_run, task_results, env_creds, call, main_pc, idx,
                    futures, yielded, results, summary, files, template_file, clock >>

\* a sequential loop that stops at the first failed device
SequentialReturnAbort ==
    /\ main_pc = "sequential"
    /\ idx <= N
    /\ op[idx].pc = "returned"
    /\ results' = Append(results, op[idx].result)
    /\ idx' = IF op[idx].result.success THEN idx + 1 ELSE N + 1
    /\ UNCHANGED << components, devices, dry_run, task_results, env_creds, call, main_pc, futures,
                    yielded, summary, op, files, template_file, clock >>

\* a sequential loop that puts each new result first
SequentialReturnPrepend ==
    /\ main_pc = "sequential"
    /\ idx <= N
    /\ op[idx].pc = "returned"
    /\ results' = <<op[idx].result>> \o results
    /\ idx' = idx + 1
    /\ UNCHANGED << components, devices, dry_run, task_results, env_creds, call, main_pc, futures,
                    yielded, summary, op, files, template_file, clock >>

\* the device operation has returned: results.append(result)
SequentialReturn ==
    /\ main_pc = "sequential"
    /\ idx <= N
    /\ op[idx].pc = "returned"
    /\ results' = Append(results, op[idx].result)
    /\ idx' = idx + 1
    /\ UNCHANGED << components, devices, dry_run, task_results, env_creds, call, main_pc, futures,
                    yielded, summary, op, files, template_file, clock >>

\* a count of the successful results that stops at the first failed one
SuccessCountUntilFailure(rs) ==
    Cardinality({ k \in 1..Len(rs) : \A m \in 1..k : rs[m].success })

\* sum(1 for r in results if r["success"])
SuccessCount(rs) == Cardinality({ k \in 1..Len(rs) : rs[k].success })

\* the summary of a batch
Summarize(rs) ==
    [total_devices |-> Len(devices),
     successful |-> SuccessCount(rs),
     failed |-> Len(rs) - SuccessCount(rs),
     results |-> rs]

\* a collection that ends once as many futures as there are workers are in
BatchCompleteEarly ==
    \/ main_pc = "sequential" /\ idx > N
    \/ /\ main_pc = "collect"
       /\ \/ yielded = 1..N
          \/ Cardinality(yielded) >= call.max_workers

\* a batch that returns once every task is submitted, without waiting
BatchCompleteNoWait ==
    \/ main_pc = "sequential" /\ idx > N
    \/ main_pc = "collect" /\ Len(futures) = N

\* every device has been handled: the loop, or as_completed, is exhausted
BatchComplete ==
    \/ main_pc = "sequential" /\ idx > N
    \/ main_pc = "collect" /\ yielded = 1..N

\* a backup batch that stores its summary in self.results too
AggregateStoresBackup ==
    /\ BatchComplete
    /\ summary' = Summarize(results)
    /\ task_results' = summary'
    /\ main_pc' = "done"
    /\ UNCHANGED << components, devices, dry_run, env_creds, call, idx, futures, yielded, results,
                    op, files, template_file, clock >>

\* the summary is built and returned; configure_multiple_devices stores it
Aggregate ==
    /\ BatchComplete
    /\ summary' = Summarize(results)
    /\ task_results' = IF call.operation = "configure" THEN summary' ELSE task_results
    /\ main_pc' = "done"
    /\ UNCHANGED << components, devices, dry_run, env_creds, call, idx, futures, yielded, results,
                    op, files, template_file, clock >>

Next ==
    \/ CallConfigure
    \/ CallBackup
    \/ Submit
    \/ SequentialCall
    \/ SequentialReturn
    \/ Aggregate
    \/ \E i \in 1..N : WorkerStart(i)
    \/ \E i \in 1..N : Collect(i)
    \/ \E i \in 1..N : ConnectHangs(i)
    \/ \E i \in 1..N : Connect(i)
    \/ \E i \in 1..N : Apply(i)
    \/ \E i \in 1..N : Save(i)
    \/ \E i \in 1..N : Validate(i)
    \/ \E i \in 1..N : Disconnect(i)
    \/ \E i \in 1..N : BackupConnect(i)
    \/ \E i \in 1..N : BackupRetrieve(i)
    \/ \E i \in 1..N : BackupDisconnect(i)
    \/ \E i \in 1..N : BackupWrite(i)

Spec == Init /\ [][Next]_vars

\* The calling thread and the pool's threads are scheduled by the interpreter:
\* a step that can be taken is taken in the end.  Every behaviour is finite, so
\* this is all the scheduling says.
LiveSpec == Init /\ [][Next]_vars /\ WF_vars(Next)

(* ----------------------- ConfigValidator ------------------------------ *)

\* the longest list of checks handed to run_validation_suite
MaxChecks == 2

\* "Success rate is (\d+) percent": the least rate that passes
MinSuccessRate == 80

\* the kinds of check run_validation_suite dispatches on
KnownKinds == { "connectivity", "interface", "protocol", "ping", "config" }

\* A validation dict: its "type", the parameter its kind requires
\* ("interface", "protocol", "target", "snippet"; None when the key is
\* absent) and the optional one ("status", "count"; None when absent).
Check(type, param, opt) == [type |-> type, param |-> param, opt |-> opt]

\* the validation dicts of a suite
CheckSpecs ==
    { Check("connectivity", None, None) }
        \cup { Check("interface", "Gi0/1", o) : o \in { None, "UP", "down" } }
        \cup { Check("interface", None, None) }
        \cup { Check("protocol", p, None) : p \in { "ospf", "rip", None } }
        \cup { Check("ping", "10.0.0.1", c) : c \in { None, "5" } }
        \cup { Check("ping", None, None) }
        \cup { Check("config", s, None) : s \in { "hostname R1", None } }
        \cup { Check("bogus", None, None) }

\* the lists of checks run_validation_suite may be called with
CheckLists == UNION { [1..n -> CheckSpecs] : n \in 0..MaxChecks }

\* What the session answers to one call: whether the call raised, what
\* is_alive returned, the substrings the output holds among those the checks
\* look for, and the success rate of a ping when the output states one.
Out(raised, alive, has, matched, rate) ==
    [raised |-> raised, alive |-> alive, has |-> has, matched |-> matched,
     rate |-> rate]

\* no session call was made
NoOutput == Out(FALSE, FALSE, {}, FALSE, 0)

\* send_command raised DeviceConnectionError, or is_alive raised
Failure == Out(TRUE, FALSE, {}, FALSE, 0)

\* str.lower() on the status and protocol names in use
Lower(t) == IF t = "UP" THEN "up" ELSE IF t = "DOWN" THEN "down" ELSE t

\* command_map.get(protocol.lower())
CommandMap(protocol) ==
    IF protocol = "ospf" THEN "show ip ospf"
    ELSE IF protocol = "eigrp" THEN "show ip eigrp neighbors"
    ELSE IF protocol = "bgp" THEN "show ip bgp summary"
    ELSE None

\* the session call a check of a kind makes, None when it makes none
CommandOf(type, param, count) ==
    IF type = "connectivity" THEN "is_alive"
    ELSE IF type = "interface" THEN "show interface " \o param
    ELSE IF type = "protocol" THEN CommandMap(Lower(param))
    ELSE IF type = "ping" THEN "ping " \o param \o " repeat " \o count
    ELSE IF type = "config" THEN "show running-config"
    ELSE None

\* the answers the session may give to a command
Outputs(command) ==
    IF command = None THEN { NoOutput }
    ELSE IF command = "is_alive"
    THEN { Out(FALSE, TRUE, {}, FALSE, 0), Out(FALSE, FALSE, {}, FALSE, 0), Failure }
    ELSE { Failure }
         \cup { Out(FALSE, FALSE, h, FALSE, 0) :
                   h \in { {}, { "up", "line protocol is up" }, { "up", "down" },
                           { "not running" }, { "hostname R1" } } }
         \cup { Out(FALSE, FALSE, {}, TRUE, r) : r \in { 100, MinSuccessRate, 60 } }

\* ConfigValidator.verify_connectivity: True, or ValidationError
VerifyConnectivity(out) ==
    IF out.raised \/ ~out.alive THEN "ValidationError" ELSE "True"

\* ConfigValidator.verify_interface_status
VerifyInterfaceStatus(interface, expected_status, out) ==
    IF out.raised THEN "ValidationError"
    ELSE IF Lower(expected_status) = "up"
    THEN (IF "up" \in out.has /\ "line protocol is up" \in out.has
          THEN "True" ELSE "ValidationError")
    ELSE (IF "down" \in out.has THEN "True" ELSE "ValidationError")

\* ConfigValidator.verify_routing_protocol
VerifyRoutingProtocol(protocol, out) ==
    IF CommandMap(Lower(protocol)) = None THEN "ValidationError"
    ELSE IF out.raised THEN "ValidationError"
    ELSE IF "not running" \in out.has \/ "% " \in out.has THEN "ValidationError"
    ELSE "True"

\* a verify_ip_connectivity that asks for more than MinSuccessRate
VerifyIpConnectivityAbove(target_ip, count, out) ==
    IF out.raised THEN "ValidationError"
    ELSE IF out.matched
    THEN (IF out.rate > MinSuccessRate THEN "True" ELSE "ValidationError")
    ELSE "ValidationError"

\* ConfigValidator.verify_ip_connectivity
VerifyIpConnectivity(target_ip, count, out) ==
    IF out.raised THEN "ValidationError"
    ELSE IF out.matched
    THEN (IF out.rate >= MinSuccessRate THEN "True" ELSE "ValidationError")
    ELSE "ValidationError"

\* ConfigValidator.verify_config_contains
VerifyConfigContains(config_snippet, out) ==
    IF out.raised THEN "ValidationError"
    ELSE IF config_snippet \in out.has THEN "True" ELSE "ValidationError"

\* the defaults of the point checks: expected_status="up", count=3
DefaultExpectedStatus == "up"

DefaultCount == "3"

\* A point check called directly with the parameters of a check, an absent
\* optional parameter left to the default of the method.
PointCheck(check, out) ==
    IF check.type = "connectivity" THEN VerifyConnectivity(out)
    ELSE IF check.type = "interface"
    THEN VerifyInterfaceStatus(check.param,
             IF check.opt = None THEN DefaultExpectedStatus ELSE check.opt, out)
    ELSE IF check.type = "protocol" THEN VerifyRoutingProtocol(check.param, out)
    ELSE IF check.type = "ping"
    THEN VerifyIpConnectivity(check.param,
             IF check.opt = None THEN DefaultCount ELSE check.opt, out)
    ELSE VerifyConfigContains(check.param, out)

\* the session call that point check makes
PointCommand(check) ==
    CommandOf(check.type, check.param,
              IF check.opt = None THEN DefaultCount ELSE check.opt)

\* a suite that takes "down" for a status that is not given
SuiteStatusDown(validation) == IF validation.opt = None THEN "down" ELSE validation.opt

\* validation.get("status", "up")
SuiteStatus(validation) == IF validation.opt = None THEN "up" ELSE validation.opt

\* validation.get("count", 3)
SuiteCount(validation) == IF validation.opt = None THEN "3" ELSE validation.opt

\* validation["interface"], validation["protocol"], validation["target"],
\* validation["snippet"] raise KeyError when the key is absent
RaisesKeyError(validation) ==
    validation.type \in { "interface", "protocol", "ping", "config" }
        /\ validation.param = None

\* the session call the suite makes for a validation, None when it makes none
SuiteCommand(validation) ==
    IF RaisesKeyError(validation) THEN None
    ELSE CommandOf(validation.type, validation.param, SuiteCount(validation))

\* The body of the suite's try block: the value assigned to `result`, or
\* "ValidationError" when the point check raises it.
SuiteResult(validation, out) ==
    IF validation.type = "connectivity" THEN VerifyConnectivity(out)
    ELSE IF validation.type = "interface"
    THEN VerifyInterfaceStatus(validation.param, SuiteStatus(validation), out)
    ELSE IF validation.type = "protocol"
    THEN VerifyRoutingProtocol(validation.param, out)
    ELSE IF validation.type = "ping"
    THEN VerifyIpConnectivity(validation.param, SuiteCount(validation), out)
    ELSE IF validation.type = "config" THEN VerifyConfigContains(validation.param, out)
    ELSE "False"

\* f"validation_{idx}_{val_type}"
ResultKey(index, val_type) == "validation_" \o ToString(index) \o "_" \o val_type

\* results[key] = value
PutResult(rs, key, value) ==
    [k \in DOMAIN rs \cup { key } |-> IF k = key THEN value ELSE rs[k]]

\* no ConfigurationTask is involved
NoBatch ==
    /\ devices = <<>>
    /\ dry_run = FALSE
    /\ env_creds = TRUE
    /\ task_results = EmptyDict
    /\ call = NoCall
    /\ main_pc = "idle"
    /\ idx = 1
    /\ futures = <<>>
    /\ yielded = {}
    /\ results = <<>>
    /\ summary = NoSummary
    /\ op = <<>>
    /\ files = <<>>
    /\ template_file = TemplateUnread
    /\ clock = 0

\* run_validation_suite is called with a list of checks: results = {}
SuiteInit ==
    /\ NoBatch
    /\ validator_call = NoValidatorCall
    /\ network_device = NoNetworkDevice
    /\ cli = NoCli
    /\ \E cs \in CheckLists :
         suite = [pc |-> "running", checks |-> cs, pos |-> 0, results |-> <<>>,
                  log |-> <<>>]

\* One turn of `for idx, validation in enumerate(validations)`: the check is
\* dispatched on its type, ValidationError is caught and gives False, any
\* other exception leaves the suite.
SuiteStep ==
    /\ suite.pc = "running"
    /\ suite.pos < Len(suite.checks)
    /\ LET validation == suite.checks[suite.pos + 1]
       IN IF RaisesKeyError(validation)
          THEN suite' = [suite EXCEPT !.pc = "raised"]
          ELSE \E out \in Outputs(SuiteCommand(validation)) :
                 suite' = [suite EXCEPT
                     !.pos = @ + 1,
                     !.log = Append(@, [command |-> SuiteCommand(validation),
                                        output |-> out]),
                     !.results = PutResult(@, ResultKey(suite.pos, validation.type),
                                           SuiteResult(validation, out) = "True")]
    /\ UNCHANGED << batch, validator_call, network_device, cli >>

\* the loop is over: return results
SuiteReturn ==
    /\ suite.pc = "running"
    /\ suite.pos = Len(suite.checks)
    /\ suite' = [suite EXCEPT !.pc = "returned"]
    /\ UNCHANGED << batch, validator_call, network_device, cli >>

SuiteNext == SuiteStep \/ SuiteReturn

SuiteSpec == SuiteInit /\ [][SuiteNext]_vars

(* ------------- verify_ip_connectivity and get_device_info -------------- *)

\* the longest output of a command, in lines
MaxLines == 2

\* The output of a command is a sequence of tokens: the literal parts of the
\* patterns the validator searches for, single digits, words without white
\* space, the space and the newline.
Digits == { "0", "1", "2", "3", "4", "5", "6", "7", "8", "9" }

Words == Digits \cup { ".", "R1", "R2", "15.2(4)M,", "12.4", "week", "RELEASE", "!!!!!" }

\* what "." of a regular expression matches: everything but the newline
NonNewline ==
    Words \cup { " ", "Success rate is ", " percent", "hostname ", "Version ",
                 "version ", "uptime is ", "Cisco IOS Software, " }

\* int() of one digit
DigitValue(c) == CHOOSE n \in 0..9 : ToString(n) = c

\* int(match.group(1)) of a run of digits
RECURSIVE IntOf(_)
IntOf(ds) ==
    IF ds = <<>> THEN 0
    ELSE 10 * IntOf(SubSeq(ds, 1, Len(ds) - 1)) + DigitValue(ds[Len(ds)])

\* the length of the longest run of tokens of a class that starts at t[i]
RECURSIVE RunLength(_, _, _)
RunLength(t, i, class) ==
    IF i <= Len(t) /\ t[i] \in class THEN 1 + RunLength(t, i + 1, class) ELSE 0

\* The pattern  literal (class+) suffix  matches at t[i]; the group is greedy
\* and what follows it has to be the suffix when the pattern has one.
MatchesAt(t, i, literal, class, suffix) ==
    /\ t[i] = literal
    /\ RunLength(t, i + 1, class) >= 1
    /\ suffix # None =>
           LET after == i + 1 + RunLength(t, i + 1, class)
           IN after <= Len(t) /\ t[after] = suffix

\* re.search found nothing
NoMatch == <<>>

\* re.search(pattern, t): group(1) of the leftmost match, NoMatch without one
Search(t, literal, class, suffix) ==
    LET at == { i \in 1..Len(t) : MatchesAt(t, i, literal, class, suffix) }
    IN IF at = {} THEN NoMatch
       ELSE LET i == CHOOSE j \in at : \A k \in at : j <= k
            IN SubSeq(t, i + 1, i + RunLength(t, i + 1, class))

\* the lines a device may print for "ping <target> repeat <count>"
PingLines ==
    { <<"!!!!!", "\n">>,
      <<"Success rate is ", "1", "0", "0", " percent", "\n">>,
      <<"Success rate is ", "8", "0", " percent", "\n">>,
      <<"Success rate is ", "7", "9", " percent", "\n">>,
      <<"Success rate is ", "0", " percent", "\n">>,
      <<"Success rate is ", "8", "0", ".", "5", " percent", "\n">>,
      <<"Success rate is ", " percent", "\n">>,
      <<"Success rate is ", "1", "0", "0", "\n">> }

\* the lines of "show version"
VersionLines ==
    { <<"Cisco IOS Software, ", "Version ", "15.2(4)M,", " ", "RELEASE", "\n">>,
      <<"R1", " ", "uptime is ", "1", " ", "week", "\n">>,
      <<"version ", "12.4", "\n">>,
      <<"Version ", " ", "12.4", "\n">>,
      <<"uptime is ", "\n">>,
      <<"!!!!!", "\n">> }

\* the lines of "show running-config | include hostname"
HostnameLines ==
    { <<"hostname ", "R1", "\n">>, <<"hostname ", "R2", "\n">>, <<"hostname ", "\n">> }

RECURSIVE Texts(_, _)
\* the outputs of up to n lines drawn from a set of lines
Texts(lines, n) ==
    IF n = 0 THEN { <<>> }
    ELSE Texts(lines, n - 1)
             \cup { t \o l : t \in Texts(lines, n - 1), l \in lines }

\* What device.send_command answers: it raised DeviceConnectionError, or it
\* returned a text.
Answer(raised, text) == [raised |-> raised, text |-> text]

Answers(lines) == { Answer(TRUE, <<>>) } \cup { Answer(FALSE, t) : t \in Texts(lines, MaxLines) }

\* the outcome of a call: the value it returned, or the exception it raised
Returns(v) == [raised |-> None, value |-> v]

Raises(kind) == [raised |-> kind, value |-> None]

\* verify_ip_connectivity reads the answer to its ping: the session call
\* raised, or re.search(r"Success rate is (\d+) percent", output) matched and
\* int() of its group is the rate
PingOut(answer) ==
    LET group == Search(answer.text, "Success rate is ", Digits, " percent")
    IN IF answer.raised THEN Failure
       ELSE IF group = NoMatch THEN Out(FALSE, FALSE, {}, FALSE, 0)
       ELSE Out(FALSE, FALSE, {}, TRUE, IntOf(group))

\* the value of a field that is not found
Unknown == <<"Unknown">>

Field(group) == IF group = NoMatch THEN Unknown ELSE group

\* a get_device_info that gives up the uptime when it finds no version
DeviceInfoCoupled(version_output, hostname_output) ==
    [hostname |-> Field(Search(hostname_output, "hostname ", Words, None)),
     version |-> Field(Search(version_output, "Version ", Words, None)),
     uptime |-> IF Search(version_output, "Version ", Words, None) = NoMatch
                THEN Unknown
                ELSE Field(Search(version_output, "uptime is ", NonNewline, None)),
     device_type |-> "cisco_ios",
     host |-> HostName(1)]

\* the dict get_device_info builds from the two outputs
DeviceInfo(version_output, hostname_output) ==
    [hostname |-> Field(Search(hostname_output, "hostname ", Words, None)),
     version |-> Field(Search(version_output, "Version ", Words, None)),
     uptime |-> Field(Search(version_output, "uptime is ", NonNewline, None)),
     device_type |-> "cisco_ios",
     host |-> HostName(1)]

\* a get_device_info that lets the failure of a command through
GetDeviceInfoFailedRaises == Raises("DeviceConnectionError")

\* get_device_info's `except Exception`: the error is logged, {} is returned
GetDeviceInfoFailed == Returns(EmptyDict)

ValidatorMethods == { "verify_ip_connectivity", "get_device_info" }

\* one of the two methods is called on a validator of a connected device
ValidatorInit ==
    /\ NoBatch
    /\ suite = NoSuite
    /\ network_device = NoNetworkDevice
    /\ cli = NoCli
    /\ \E m \in ValidatorMethods :
         validator_call = [pc |-> "called", method |-> m, answers |-> <<>>,
                           outcome |-> Raises(None)]

\* verify_ip_connectivity(target_ip, count): one ping, its output parsed
VerifyIpConnectivityCall ==
    /\ validator_call.pc = "called"
    /\ validator_call.method = "verify_ip_connectivity"
    /\ \E answer \in Answers(PingLines) :
         LET r == VerifyIpConnectivity("10.0.0.1", DefaultCount, PingOut(answer))
         IN validator_call' = [validator_call EXCEPT
                !.pc = "done",
                !.answers = <<answer>>,
                !.outcome = IF r = "True" THEN Returns(r) ELSE Raises(r)]
    /\ UNCHANGED << batch, suite, network_device, cli >>

\* get_device_info: send_command("show version")
GetDeviceInfoShowVersion ==
    /\ validator_call.pc = "called"
    /\ validator_call.method = "get_device_info"
    /\ \E answer \in Answers(VersionLines) :
         validator_call' = [validator_call EXCEPT
             !.pc = IF answer.raised THEN "done" ELSE "hostname",
             !.answers = <<answer>>,
             !.outcome = IF answer.raised THEN GetDeviceInfoFailed ELSE @]
    /\ UNCHANGED << batch, suite, network_device, cli >>

\* get_device_info: send_command("show running-config | include hostname"),
\* then the three searches and the return
GetDeviceInfoShowHostname ==
    /\ validator_call.pc = "hostname"
    /\ \E answer \in Answers(HostnameLines) :
         validator_call' = [validator_call EXCEPT
             !.pc = "done",
             !.answers = Append(@, answer),
             !.outcome = IF answer.raised THEN GetDeviceInfoFailed
                         ELSE Returns(DeviceInfo(validator_call.answers[1].text,
                                                 answer.text))]
    /\ UNCHANGED << batch, suite, network_device, cli >>

ValidatorNext ==
    \/ VerifyIpConnectivityCall
    \/ GetDeviceInfoShowVersion
    \/ GetDeviceInfoShowHostname

ValidatorSpec == ValidatorInit /\ [][ValidatorNext]_vars

(* --------------------------- NetworkDevice ---------------------------- *)

\* the number of method calls made on one NetworkDevice
MaxCalls == 3

\* self.connection is None; a connection is named by its position among the
\* connections ConnectHandler has returned for this device
NoConnection == 0

\* what ConnectHandler, check_enable_mode and enable may raise
LibraryErrors ==
    { "NetmikoTimeoutException", "NetmikoAuthenticationException", "SSHException",
      "ValueError" }

\* the base class of an exception class (netmiko's timeout and authentication
\* errors derive from paramiko's SSHException)
Base(class) ==
    IF class \in { "NetmikoTimeoutException", "NetmikoAuthenticationException" }
    THEN "SSHException"
    ELSE "Exception"

\* isinstance(e, class) for an exception e of class c
IsInstance(c, class) == class \in { c, Base(c), Base(Base(c)) }

\* except clauses that try SSHException first
ConnectExceptsSSHFirst ==
    << [class |-> "SSHException", prefix |-> "SSH error connecting to "],
       [class |-> "NetmikoTimeoutException", prefix |-> "Connection timeout to "],
       [class |-> "NetmikoAuthenticationException", prefix |-> "Authentication failed for "],
       [class |-> "Exception", prefix |-> "Unexpected error connecting to "] >>

\* the except clauses of connect, in order, with the message each one builds
ConnectExcepts ==
    << [class |-> "NetmikoTimeoutException", prefix |-> "Connection timeout to "],
       [class |-> "NetmikoAuthenticationException", prefix |-> "Authentication failed for "],
       [class |-> "SSHException", prefix |-> "SSH error connecting to "],
       [class |-> "Exception", prefix |-> "Unexpected error connecting to "] >>

\* what connect raises for an exception of class c met in its try block: the
\* first clause that matches decides
ConnectError(c) ==
    LET k == CHOOSE j \in DOMAIN ConnectExcepts :
                 /\ IsInstance(c, ConnectExcepts[j].class)
                 /\ \A l \in 1..(j - 1) : ~IsInstance(c, ConnectExcepts[l].class)
    IN Exc("DeviceConnectionError", ConnectExcepts[k].prefix)

\* the methods that work on the connection
SessionMethods == { "send_command", "send_config_set", "send_config_from_file", "save_config" }

\* the message of the DeviceConnectionError a method wraps a failure in
ErrorPrefix(method) ==
    IF method = "send_command" THEN "Error executing command on "
    ELSE IF method = "send_config_set" THEN "Error applying configuration on "
    ELSE "Error applying config from file on "

\* What a method call did: the method, self.connection and whether the device
\* was connected (a connect has returned and no disconnect was called since)
\* when it was called, whether it called the underlying connection, whether
\* that call raised, the exception connect met, the exception the method
\* raised, the value it returned.
Called(method, reached, failed, cause, raised, value) ==
    [method |-> method, before |-> network_device.connection,
     was_connected |-> network_device.connected, reached |-> reached,
     failed |-> failed, cause |-> cause, raised |-> raised, value |-> value]

NoMethodCalled == [method |-> None]

\* NetworkDevice(host): self.connection = None
DeviceInit ==
    /\ NoBatch
    /\ suite = NoSuite
    /\ validator_call = NoValidatorCall
    /\ cli = NoCli
    /\ \E secret \in BOOLEAN :
         network_device = [pc |-> "ready", secret |-> secret,
                           connection |-> NoConnection, handles |-> <<>>,
                           connected |-> FALSE, count |-> 0, last |-> NoMethodCalled]

\* connect() leaves its try block with an exception of class c, self.connection
\* being what it was or the connection just opened
ConnectRaises(c, opened) ==
    network_device' = [network_device EXCEPT
        !.count = @ + 1,
        !.connection = IF opened THEN Len(network_device.handles) + 1 ELSE @,
        !.handles = IF opened THEN Append(@, [disconnects |-> 0]) ELSE @,
        !.last = Called("connect", opened, TRUE, c, ConnectError(c), None)]

\* connect(): ConnectHandler(**device_params) is assigned to self.connection,
\* then with a secret check_enable_mode() and enable(); every exception of the
\* try block is raised again as DeviceConnectionError
DeviceConnect ==
    /\ network_device.pc = "ready"
    /\ network_device.count < MaxCalls
    /\ \/ \E c \in LibraryErrors : ConnectRaises(c, FALSE)
       \/ /\ network_device.secret
          /\ \E c \in LibraryErrors : ConnectRaises(c, TRUE)
       \/ network_device' = [network_device EXCEPT
              !.count = @ + 1,
              !.connection = Len(network_device.handles) + 1,
              !.handles = Append(@, [disconnects |-> 0]),
              !.connected = TRUE,
              !.last = Called("connect", TRUE, FALSE, None, NoError, "True")]
    /\ UNCHANGED << batch, suite, validator_call, cli >>

\* a disconnect without the finally clause
DeviceDisconnectNoFinally ==
    /\ network_device.pc = "ready"
    /\ network_device.count < MaxCalls
    /\ IF network_device.connection = NoConnection
       THEN network_device' = [network_device EXCEPT
                !.count = @ + 1,
                !.connected = FALSE,
                !.last = Called("disconnect", FALSE, FALSE, None, NoError, None)]
       ELSE \E failed \in BOOLEAN :
              network_device' = [network_device EXCEPT
                  !.count = @ + 1,
                  !.handles[network_device.connection].disconnects = @ + 1,
                  !.connection = IF failed THEN @ ELSE NoConnection,
                  !.connected = FALSE,
                  !.last = Called("disconnect", TRUE, failed, None, NoError, None)]
    /\ UNCHANGED << batch, suite, validator_call, cli >>

\* disconnect(): with a connection, self.connection.disconnect() is called,
\* an exception of it is logged, and self.connection = None in every case
DeviceDisconnect ==
    /\ network_device.pc = "ready"
    /\ network_device.count < MaxCalls
    /\ IF network_device.connection = NoConnection
       THEN network_device' = [network_device EXCEPT
                !.count = @ + 1,
                !.connected = FALSE,
                !.last = Called("disconnect", FALSE, FALSE, None, NoError, None)]
       ELSE \E failed \in BOOLEAN :
              network_device' = [network_device EXCEPT
                  !.count = @ + 1,
                  !.handles[network_device.connection].disconnects = @ + 1,
                  !.connection = NoConnection,
                  !.connected = FALSE,
                  !.last = Called("disconnect", TRUE, failed, None, NoError, None)]
    /\ UNCHANGED << batch, suite, validator_call, cli >>

\* send_command, send_config_set, send_config_from_file, save_config: without
\* a connection DeviceConnectionError "Not connected to <host>"; otherwise the
\* method of the connection is called, and its exception is wrapped in
\* DeviceConnectionError by every method but save_config
DeviceSend(method) ==
    /\ network_device.pc = "ready"
    /\ network_device.count < MaxCalls
    /\ IF network_device.connection = NoConnection
       THEN network_device' = [network_device EXCEPT
                !.count = @ + 1,
                !.last = Called(method, FALSE, FALSE, None,
                                Exc("DeviceConnectionError", "Not connected to "), None)]
       ELSE \E failed \in BOOLEAN :
              network_device' = [network_device EXCEPT
                  !.count = @ + 1,
                  !.last = Called(method, TRUE, failed, None,
                               IF ~failed THEN NoError
                               ELSE IF method = "save_config"
                               THEN Exc("Exception", "save failed")
                               ELSE Exc("DeviceConnectionError", ErrorPrefix(method)),
                               IF failed THEN None ELSE "output")]
    /\ UNCHANGED << batch, suite, validator_call, cli >>

\* is_alive(): False without a connection, otherwise what the connection says
DeviceIsAlive ==
    /\ network_device.pc = "ready"
    /\ network_device.count < MaxCalls
    /\ IF network_device.connection = NoConnection
       THEN network_device' = [network_device EXCEPT
                !.count = @ + 1,
                !.last = Called("is_alive", FALSE, FALSE, None, NoError, "False")]
       ELSE \E alive \in { "True", "False" } :
              network_device' = [network_device EXCEPT
                  !.count = @ + 1,
                  !.last = Called("is_alive", TRUE, FALSE, None, NoError, alive)]
    /\ UNCHANGED << batch, suite, validator_call, cli >>

DeviceNext ==
    \/ DeviceConnect
    \/ DeviceDisconnect
    \/ \E method \in SessionMethods : DeviceSend(method)
    \/ DeviceIsAlive

DeviceSpec == DeviceInit /\ [][DeviceNext]_vars

(* --------------------------- the command line ------------------------- *)

\* the commands of the parser; None is a command line without a command
CliCommands == { None, "configure", "configure-inventory", "backup", "validate" }

BatchCommands == { "configure-inventory", "backup" }

\* The arguments of one run: the command, the payload of a configure command
\* (--template, --commands or neither), --inventory (absent, a file that does
\* not exist, a file that exists), --dry-run and --save.
Args(command, payload, inventory, dry, save) ==
    [command |-> command, payload |-> payload, inventory |-> inventory,
     dry_run |-> dry, save |-> save]

\* --inventory is required by configure-inventory, optional for backup (which
\* otherwise takes --host) and unknown to the single-device commands
Inventories(command) ==
    IF command = "configure-inventory" THEN { "missing", "found" }
    ELSE IF command = "backup" THEN { None, "missing", "found" }
    ELSE { None }

Payloads(command) ==
    IF command \in { "configure", "configure-inventory" }
    THEN { None, "template", "commands" } ELSE { None }

CliArgs ==
    { Args(c, p, i, d, s) : c \in CliCommands, p \in { None, "template", "commands" },
                            i \in { None, "missing", "found" }, d \in BOOLEAN,
                            s \in BOOLEAN }

\* the run goes on: nothing has called sys.exit and main has not returned
Running == "running"

\* sys.exit(1), reached from the given place of the program
Exit1(c, why) == [c EXCEPT !.pc = "exited", !.status = "1", !.why = why]

\* main returns: the exit status of the process is 0
Return0(c) == [c EXCEPT !.pc = "exited", !.status = "0"]

\* the summary a batch operation returns for the outcomes of its devices
\* (TRUE for a device that succeeded)
TaskSummary(outcomes) ==
    [total_devices |-> Len(outcomes),
     successful |-> Cardinality({ k \in 1..Len(outcomes) : outcomes[k] }),
     failed |-> Cardinality({ k \in 1..Len(outcomes) : ~outcomes[k] })]

\* no summary was printed
NotPrinted == [total_devices |-> 0, successful |-> 0, failed |-> 0, printed |-> FALSE]

\* print_output of the "Summary:" block
PrintSummary(result) ==
    [total_devices |-> result.total_devices, successful |-> result.successful,
     failed |-> result.failed, printed |-> TRUE]

\* the outcomes of the devices of a batch of up to MaxDevices devices
DeviceOutcomes == UNION { [1..n -> BOOLEAN] : n \in 0..MaxDevices }

\* a batch command that exits with status 1 when a device failed
BatchStatusByFailures(c, result) ==
    IF result.failed > 0 THEN Exit1(c, "device")
    ELSE Return0([c EXCEPT !.summary = PrintSummary(result)])

\* a batch command prints the summary of its task and returns
BatchStatus(c, result) == Return0([c EXCEPT !.summary = PrintSummary(result)])

\* the command line is parsed; the credentials of the environment are there
\* or not
CliInit ==
    /\ NoBatch
    /\ suite = NoSuite
    /\ validator_call = NoValidatorCall
    /\ network_device = NoNetworkDevice
    /\ \E a \in CliArgs, creds \in BOOLEAN :
         /\ a.payload \in Payloads(a.command)
         /\ a.inventory \in Inventories(a.command)
         /\ (a.dry_run \/ a.save) => a.command \in { "configure", "configure-inventory" }
         /\ cli = [pc |-> "main", args |-> a, credentials |-> creds,
                   status |-> Running, why |-> None, summary |-> NotPrinted]

\* main(): no command, missing credentials, or the handler of the command
CliMain ==
    /\ cli.pc = "main"
    /\ cli' = IF cli.args.command = None THEN Exit1(cli, "no command")
              ELSE IF ~cli.credentials THEN Exit1(cli, "missing credentials")
              ELSE [cli EXCEPT !.pc = cli.args.command]
    /\ UNCHANGED << batch, suite, validator_call, network_device >>

\* cmd_configure, up to device.connect(): its failure is caught by the
\* `except Exception` of the command, which exits with status 1
CmdConfigureConnect ==
    /\ cli.pc = "configure"
    /\ \E c \in ConnectOutcomes :
         cli' = IF c.kind # None THEN Exit1(cli, "device")
                ELSE [cli EXCEPT !.pc = "configure: connected"]
    /\ UNCHANGED << batch, suite, validator_call, network_device >>

\* cmd_configure after connect: the payload is prepared (sys.exit(1) without
\* one), then shown in a dry run or sent and saved; every exception ends in
\* the `except Exception` of the command
CmdConfigureApply ==
    /\ cli.pc = "configure: connected"
    /\ \E file \in TemplateFiles, s \in SendConfigSetOutcomes, v \in SaveConfigOutcomes :
         cli' = IF cli.args.payload = None THEN Exit1(cli, "no payload")
                ELSE IF cli.args.payload = "template" /\ RenderTemplate(file).kind # None
                THEN Exit1(cli, "template")
                ELSE IF cli.args.dry_run THEN Return0(cli)
                ELSE IF s.kind # None THEN Exit1(cli, "device")
                ELSE IF cli.args.save /\ v.kind # None THEN Exit1(cli, "device")
                ELSE Return0(cli)
    /\ UNCHANGED << batch, suite, validator_call, network_device >>

\* cmd_configure_inventory: load_inventory exits with status 1 for a missing
\* file; otherwise configure_multiple_devices returns its summary, whatever
\* the devices did, and the summary is printed
CmdConfigureInventory ==
    /\ cli.pc = "configure-inventory"
    /\ \E outcomes \in DeviceOutcomes :
         cli' = IF cli.args.inventory = "missing" THEN Exit1(cli, "inventory not found")
                ELSE BatchStatus(cli, TaskSummary(outcomes))
    /\ UNCHANGED << batch, suite, validator_call, network_device >>

\* cmd_backup: the devices of the inventory, or the one of --host; the
\* summary of backup_configs is printed
CmdBackup ==
    /\ cli.pc = "backup"
    /\ \E outcomes \in DeviceOutcomes :
         /\ cli.args.inventory = None => Len(outcomes) = 1
         /\ cli' = IF cli.args.inventory = "missing"
                   THEN Exit1(cli, "inventory not found")
                   ELSE BatchStatus(cli, TaskSummary(outcomes))
    /\ UNCHANGED << batch, suite, validator_call, network_device >>

\* cmd_validate: connect, verify_connectivity, get_device_info, disconnect;
\* every exception ends in the `except Exception` of the command
CmdValidate ==
    /\ cli.pc = "validate"
    /\ \E c \in ConnectOutcomes, v \in VerifyConnectivityOutcomes :
         cli' = IF c.kind # None \/ v.kind # None THEN Exit1(cli, "device")
                ELSE Return0(cli)
    /\ UNCHANGED << batch, suite, validator_call, network_device >>

CliNext ==
    \/ CliMain
    \/ CmdConfigureConnect
    \/ CmdConfigureApply
    \/ CmdConfigureInventory
    \/ CmdBackup
    \/ CmdValidate

CliSpec == CliInit /\ [][CliNext]_vars

(* ------------------------------ claims -------------------------------- *)

Range(seq) == { seq[k] : k \in DOMAIN seq }

\* the batch operation has returned its summary
Done == main_pc = "done"

\* the device operation of device i has returned its result
Returned(i) == op[i].pc = "returned"

\* connect() returned: device.connection has been set
ConnectSucceeded(i) == op[i].session # "none"

\* connect() was called and raised
ConnectFailed(i) == "connect" \in Range(op[i].calls) /\ op[i].session = "none"

\* the text of a message is not the empty string
NonEmptyMessage(m) == \E k \in DOMAIN m : m[k] # ""

\* C1: the summary every batch operation returns (configure or backup,
\* sequential or parallel, any number of devices, any mix of successes and
\* failures) has successful + failed = total_devices, and total_devices is
\* the number of entries of results.
C1_SummaryCounts ==
    Done =>
        /\ summary.successful + summary.failed = summary.total_devices
        /\ summary.total_devices = Len(summary.results)

\* a parallel backup has returned with one device saved and one failed
C1_Witness ==
    /\ Done
    /\ call.operation = "backup"
    /\ call.parallel
    /\ summary.successful = 1
    /\ summary.failed = 1

\* C2: when configure_device returns, the session it connected has been
\* disconnected, whether the operation succeeded or failed at a later stage.
C2_SessionReleased ==
    \A i \in 1..N :
        (call.operation = "configure" /\ Returned(i) /\ ConnectSucceeded(i))
            => op[i].session = "closed"

\* C3: whatever fails in configure_device (the descriptor has no host, the
\* credentials are missing, connect, the template, apply, save, validation),
\* it returns a result that holds the host ("unknown" without one),
\* success = false and a message that is not empty.
C3_NoPropagation ==
    \A i \in 1..N :
        (call.operation = "configure" /\ Returned(i) /\ op[i].error.kind # None)
            => /\ op[i].result.host = HostOf(devices[i])
               /\ op[i].result.success = FALSE
               /\ NonEmptyMessage(op[i].result.message)

\* configure_device has returned for a descriptor with no host
C3_Witness ==
    \E i \in 1..N :
        /\ call.operation = "configure"
        /\ Returned(i)
        /\ devices[i].host = None
        /\ op[i].result.host = UnknownHost
        /\ op[i].error.kind = "KeyError"

\* C4: a failing device never aborts the batch nor touches a sibling: when the
\* batch returns, every device has been run to its return, its own result is
\* in the summary, and that result is successful exactly when its own
\* operation met no error.
C4_FailureIsolation ==
    Done =>
        \A j \in 1..N :
            /\ Returned(j)
            /\ \E k \in DOMAIN summary.results : summary.results[k] = op[j].result
            /\ op[j].result.success <=> (op[j].error.kind = None)

\* a sequential batch whose first device failed and whose second succeeded
C4_Witness ==
    /\ Done
    /\ ~call.parallel
    /\ N = 2
    /\ op[1].error.kind # None
    /\ op[2].result.success

\* C5: a parallel configure batch of N devices returns exactly N results, one
\* for the host of every device, whatever max_workers is and whichever device
\* operations failed.
C5_ParallelExactlyN ==
    (Done /\ call.operation = "configure" /\ call.parallel) =>
        /\ Len(summary.results) = N
        /\ \A i \in 1..N :
               Cardinality({ k \in DOMAIN summary.results :
                               summary.results[k].host = HostOf(devices[i]) }) = 1

\* two devices on one worker, one of them failed, collected out of input order
C5_Witness ==
    /\ Done
    /\ call.operation = "configure"
    /\ call.parallel
    /\ call.max_workers = 1
    /\ N = 2
    /\ summary.failed = 1
    /\ summary.results[1].host = HostOf(devices[2])

\* C6: in sequential mode the i-th entry of results is the result of the i-th
\* device; with no device the results are empty and the three counts are 0.
C6_SequentialOrder ==
    (Done /\ ~call.parallel) =>
        /\ Len(summary.results) = N
        /\ \A i \in 1..N :
               /\ summary.results[i] = op[i].result
               /\ summary.results[i].host = HostOf(devices[i])
        /\ N = 0 =>
               /\ summary.results = <<>>
               /\ summary.total_devices = 0
               /\ summary.successful = 0
               /\ summary.failed = 0

\* a sequential configure of two devices, the first successful, the second not
C6_Witness ==
    /\ Done
    /\ ~call.parallel
    /\ call.operation = "configure"
    /\ N = 2
    /\ summary.results[1].success
    /\ ~summary.results[2].success

\* neither send_config_set nor save_config has been called by operation i
NothingSent(i) ==
    /\ "send_config_set" \notin Range(op[i].calls)
    /\ "save_config" \notin Range(op[i].calls)

\* C7 as stated: in dry-run mode configure_device never calls send_config_set
\* or save_config, and the output of the result it returns holds the dry-run
\* marker.
C7_Original ==
    \A i \in 1..N :
        (call.operation = "configure" /\ dry_run /\ Returned(i))
            => /\ NothingSent(i)
               /\ DryRunOutput \in Range(op[i].result.output)

\* C7 as amended: in dry-run mode configure_device never calls send_config_set
\* or save_config, whatever the payload, save_config and validate_after are,
\* and the output of the result it returns holds the dry-run marker exactly
\* when the result is successful.
C7_DryRun ==
    \A i \in 1..N :
        (call.operation = "configure" /\ dry_run)
            => /\ NothingSent(i)
               /\ Returned(i) =>
                      (DryRunOutput \in Range(op[i].result.output)
                           <=> op[i].result.success)

\* a dry run with save_config and validate_after both set has succeeded
C7_Witness ==
    \E i \in 1..N :
        /\ call.operation = "configure"
        /\ dry_run
        /\ call.save_config
        /\ call.validate_after
        /\ Returned(i)
        /\ op[i].result.success

\* a dry run of a literal command list has succeeded
DryRunOfLiteral(i) ==
    /\ call.operation = "configure"
    /\ dry_run
    /\ call.template_name = None
    /\ Returned(i)
    /\ op[i].result.success

C9_BackupSessionReleased ==
    \A i \in 1..N :
        (call.operation = "backup" /\ Returned(i) /\ ConnectSucceeded(i))
            => op[i].session = "closed"

\* the devices of the batch whose connect failed
F == { i \in 1..N : ConnectFailed(i) }

\* device i has a backup file that holds exactly the text retrieved from it
HasBackupFile(i) ==
    /\ op[i].config # None
    /\ op[i].result.file \in DOMAIN files
    /\ files[op[i].result.file] = op[i].config

\* what C10 says of the summary of a backup and of the files
BackupReport ==
    /\ summary.total_devices = N
    /\ summary.failed = Cardinality(F)
    /\ summary.successful = N - Cardinality(F)
    /\ \A i \in (1..N) \ F : HasBackupFile(i)

\* C10 as stated: a sequential backup of N devices where the connect of
\* exactly the devices in F fails reports total_devices = N, failed = |F|,
\* successful = N - |F|, and every device not in F has a file with exactly
\* the text retrieved from it.
C10_Original == (Done /\ call.operation = "backup" /\ ~call.parallel) => BackupReport

\* C10 as amended: the same, when no other step fails for the devices not in
\* F (their descriptor and credentials are complete, the configuration is
\* retrieved and the file is written).
C10_BackupCounts ==
    (/\ Done
     /\ call.operation = "backup"
     /\ ~call.parallel
     /\ \A i \in (1..N) \ F : op[i].error.kind = None) => BackupReport

\* two devices backed up in sequence: one failed to connect, the other is saved
C10_Witness ==
    /\ Done
    /\ call.operation = "backup"
    /\ ~call.parallel
    /\ N = 2
    /\ Cardinality(F) = 1
    /\ \E i \in (1..N) \ F : op[i].error.kind = None /\ HasBackupFile(i)

\* the credentials of device i can be resolved neither from its descriptor
\* nor from the environment
NoCredentials(i) == devices[i].host # None /\ ~devices[i].has_creds /\ ~env_creds

\* the kind of error the prefix of a configure_device message names
PrefixKind(m) ==
    IF m = <<>> THEN None
    ELSE IF m[1] = "Connection error: " THEN "connection"
    ELSE IF m[1] = "Validation error: " THEN "validation"
    ELSE IF m[1] = "Error: " THEN "generic"
    ELSE "other"

\* every device of the batch has returned and its result is in the summary
EveryDeviceReported ==
    \A j \in 1..N :
        Returned(j) /\ \E k \in DOMAIN summary.results : summary.results[k] = op[j].result

FailedAt(i) ==
    LET cs == op[i].calls
    IN IF "connect" \in Range(cs) /\ op[i].session = "none" THEN "connect"
       ELSE IF cs # <<>>
               /\ cs[Len(cs)] \in { "send_config_set", "save_config", "verify_connectivity" }
            THEN cs[Len(cs)]
       ELSE "other"

\* C12: the prefix of the message of a failed configure_device names the kind
\* of the error: "Connection error: " for a failure of connect,
\* send_config_set or save_config, "Validation error: " for a failed
\* validation, "Error: " for everything else.
C12_PrefixByKind ==
    \A i \in 1..N :
        (call.operation = "configure" /\ Returned(i) /\ op[i].error.kind # None)
            => PrefixKind(op[i].result.message) =
                   IF FailedAt(i) \in { "connect", "send_config_set", "save_config" }
                   THEN "connection"
                   ELSE IF FailedAt(i) = "verify_connectivity" THEN "validation"
                   ELSE "generic"

\* the validation of operation i was run and did not pass
ValidationFailed(i) ==
    /\ "verify_connectivity" \in Range(op[i].calls)
    /\ <<"connectivity", "True">> \notin op[i].result.validation

\* C13: when the validation that follows the configuration fails,
\* configure_device returns success = false with a "Validation error: "
\* message, although the commands were sent (and saved, when save_config is
\* set); the validation runs only with validate_after and outside dry run.
C13_ValidationFailure ==
    \A i \in 1..N :
        (call.operation = "configure" /\ Returned(i) /\ ValidationFailed(i))
            => /\ op[i].result.success = FALSE
               /\ PrefixKind(op[i].result.message) = "validation"
               /\ call.validate_after /\ ~dry_run
               /\ "send_config_set" \in Range(op[i].calls)
               /\ call.save_config => "save_config" \in Range(op[i].calls)

\* a configuration was sent and saved, and its validation failed
C13_Witness ==
    \E i \in 1..N :
        /\ call.operation = "configure"
        /\ call.save_config
        /\ Returned(i)
        /\ ValidationFailed(i)
        /\ "save_config" \in Range(op[i].calls)

\* C14: a parallel batch (configure or backup) returns its summary only when
\* every device task is over: no device operation is queued or in progress,
\* and the result of every device is in results.
C14_AllCompleteBeforeSummary ==
    (Done /\ call.parallel) => (InProgress = {} /\ EveryDeviceReported)

\* a parallel backup of two devices on two workers has returned, both saved
C14_Witness ==
    /\ Done
    /\ call.parallel
    /\ call.operation = "backup"
    /\ call.max_workers = 2
    /\ N = 2
    /\ summary.successful = 2

\* the device operations whose session call never returns
Hung == { i \in 1..N : op[i].pc = "hung" }

\* device i is submitted to the pool of a parallel batch and not started yet
Waiting(i) == IF i \in 1..N THEN op[i].pc = "queued" ELSE FALSE

\* the operation of device i is over, or is itself hung
Over(i) == IF i \in 1..N THEN op[i].pc \in { "returned", "hung" } ELSE FALSE

\* as many device operations are hung as the pool has workers
WorkersAllHung ==
    IF call.operation # None THEN Cardinality(Hung) >= call.max_workers ELSE FALSE

\* the summary is not returned while a device operation of a parallel batch
\* is hung
SummaryWaits ==
    IF call.operation # None /\ Hung # {} THEN call.parallel => main_pc # "done"
    ELSE TRUE

\* C15 as stated: in a parallel batch with a device whose session call never
\* returns, every other submitted device operation is started and completes,
\* whatever max_workers is, and the summary is not returned.
C15_Original ==
    /\ \A i \in 1..MaxDevices : Waiting(i) ~> Over(i)
    /\ []SummaryWaits

\* C15 as amended: the same, as long as fewer than max_workers device
\* operations are hung; once max_workers of them are, every worker is taken
\* and the queued operations are never started.
C15_HungDelaysSummaryOnly ==
    /\ \A i \in 1..MaxDevices : Waiting(i) ~> (Over(i) \/ WorkersAllHung)
    /\ []SummaryWaits

\* with two workers, the first device hangs in connect and the second has
\* returned its result
C15_Witness ==
    /\ call.operation # None
    /\ call.parallel
    /\ call.max_workers = 2
    /\ N = 2
    /\ op[1].pc = "hung"
    /\ op[2].pc = "returned"

\* C16: in a parallel batch at most max_workers device operations are in
\* progress at any moment, in a sequential batch at most one.
C16_BoundedWorkers ==
    call.operation # None =>
        Cardinality(InProgress) <= IF call.parallel THEN call.max_workers ELSE 1

\* one worker, two devices: the first is in progress, the second waits
C16_Witness ==
    /\ call.operation # None
    /\ call.parallel
    /\ call.max_workers = 1
    /\ N = 2
    /\ op[1].pc = "apply"
    /\ op[2].pc = "queued"

Succeeded == { i \in 1..N : op[i].error.kind = None }

\* C18: the counts of a batch are given by the outcomes of the devices alone:
\* successful is the number of devices whose operation met no error, failed
\* the number of the others, in sequential mode and in parallel mode under
\* every interleaving, every max_workers and every order of results.
C18_CountsByOutcome ==
    Done =>
        /\ summary.successful = Cardinality(Succeeded)
        /\ summary.failed = N - Cardinality(Succeeded)

\* two workers: the second device's result came first, one of the two failed
C18_Witness ==
    /\ Done
    /\ call.operation = "configure"
    /\ call.parallel
    /\ call.max_workers = 2
    /\ N = 2
    /\ summary.results[1].host = HostOf(devices[2])
    /\ ~summary.results[1].success
    /\ summary.results[2].success

\* the key of the k-th check of the suite (enumerate counts from 0)
KeyOf(k) == ResultKey(k - 1, suite.checks[k].type)

\* C19: run_validation_suite never raises, and the map it returns for n
\* checks has exactly n entries, one per check under the key of its index
\* and kind; the entry of a check of unknown kind and of a check whose
\* command failed is false; every check of the list is evaluated.
C19_FailSoftComplete ==
    /\ suite.pc # "raised"
    /\ suite.pc = "returned" =>
           /\ DOMAIN suite.results = { KeyOf(k) : k \in 1..Len(suite.checks) }
           /\ Cardinality(DOMAIN suite.results) = Len(suite.checks)
           /\ Len(suite.log) = Len(suite.checks)
           /\ \A k \in 1..Len(suite.checks) :
                  (suite.checks[k].type \notin KnownKinds \/ suite.log[k].output.raised)
                      => suite.results[KeyOf(k)] = FALSE

\* C20: the entry the suite records for a check of a known kind is true
\* exactly when the point check of that kind, called with the parameters of
\* the check, returns True on the output the session gave to the same
\* command, and false exactly when that point check raises ValidationError.
C20_SuiteMatchesPointChecks ==
    \A k \in 1..Len(suite.log) :
        suite.checks[k].type \in KnownKinds =>
            /\ suite.log[k].command = PointCommand(suite.checks[k])
            /\ suite.results[KeyOf(k)] = TRUE
                   <=> PointCheck(suite.checks[k], suite.log[k].output) = "True"
            /\ suite.results[KeyOf(k)] = FALSE
                   <=> PointCheck(suite.checks[k], suite.log[k].output) = "ValidationError"

\* a suite of an interface check with no status, which passed, and a ping
\* with no count, which failed, has returned
C20_Witness ==
    /\ suite.pc = "returned"
    /\ Len(suite.checks) = 2
    /\ suite.checks[1] = Check("interface", "Gi0/1", None)
    /\ suite.checks[2] = Check("ping", "10.0.0.1", None)
    /\ suite.results[KeyOf(1)] = TRUE
    /\ suite.results[KeyOf(2)] = FALSE

\* the ping of a finished verify_ip_connectivity states a success rate: its
\* output holds "Success rate is ", digits and " percent" in a row
PingOf == validator_call.answers[1]

StatesRate(t) ==
    \E i \in 1..Len(t) : MatchesAt(t, i, "Success rate is ", Digits, " percent")

\* the rate the output states (the first one when it states several)
StatedRate(t) == IntOf(Search(t, "Success rate is ", Digits, " percent"))

PingDone ==
    validator_call.pc = "done" /\ validator_call.method = "verify_ip_connectivity"

\* C21: verify_ip_connectivity returns True exactly when the ping was
\* answered and its output states a success rate p with p >= 80; when p < 80,
\* when the output states no rate and when the ping failed it raises
\* ValidationError and no other exception.
C21_PingThreshold ==
    PingDone =>
        /\ validator_call.outcome = Returns("True")
               <=> /\ ~PingOf.raised
                   /\ StatesRate(PingOf.text)
                   /\ StatedRate(PingOf.text) >= 80
        /\ validator_call.outcome # Returns("True")
               => validator_call.outcome = Raises("ValidationError")

\* a ping whose output states exactly 80 percent, which passed
C21_Witness ==
    /\ PingDone
    /\ PingOf = Answer(FALSE, <<"Success rate is ", "8", "0", " percent", "\n">>)
    /\ validator_call.outcome = Returns("True")

InfoDone == validator_call.pc = "done" /\ validator_call.method = "get_device_info"

\* a command of get_device_info failed
CommandFailed ==
    \E k \in 1..Len(validator_call.answers) : validator_call.answers[k].raised

\* the pattern of a field finds nothing in the output
Absent(t, literal, class) ==
    \A i \in 1..Len(t) : ~MatchesAt(t, i, literal, class, None)

\* C22: when both commands of get_device_info are answered it returns a dict
\* and does not raise, and each of hostname, version and uptime is "Unknown"
\* exactly when its own pattern is absent from the output it is searched in,
\* whatever the other two are.
C22_UnknownPerField ==
    (InfoDone /\ ~CommandFailed) =>
        LET info == validator_call.outcome.value
            version_output == validator_call.answers[1].text
            hostname_output == validator_call.answers[2].text
        IN /\ validator_call.outcome.raised = None
           /\ DOMAIN info = { "hostname", "version", "uptime", "device_type", "host" }
           /\ info.hostname = Unknown <=> Absent(hostname_output, "hostname ", Words)
           /\ info.version = Unknown <=> Absent(version_output, "Version ", Words)
           /\ info.uptime = Unknown <=> Absent(version_output, "uptime is ", NonNewline)

\* a show version with an uptime and no version, and no hostname line: the
\* uptime is found, version and hostname are "Unknown"
C22_Witness ==
    /\ InfoDone
    /\ ~CommandFailed
    /\ validator_call.outcome.value.hostname = Unknown
    /\ validator_call.outcome.value.version = Unknown
    /\ validator_call.outcome.value.uptime = <<"1", " ", "week">>

Applied(i) == ConnectSucceeded(i) /\ op[i].pc # "apply"

\* C24: a configure batch that names a template and hands device i no
\* variable mapping (no list, a list too short, or an empty mapping) still
\* renders the template for device i once its session is connected.
C24_TemplateWithoutVars ==
    \A i \in 1..N :
        (/\ call.operation = "configure"
         /\ call.template_name # None
         /\ TemplateVars(i) \in { None, "empty" }
         /\ Applied(i))
            => "render_template" \in Range(op[i].calls)

\* configure_device is called with neither commands nor a template
NoPayload == call.operation = "configure" /\ call.config_commands = <<>>
                 /\ call.template_name = None

NoPayloadMessage == <<"Error: ", "No configuration commands or template provided">>

\* C25 as stated: configure_device with neither commands nor template returns
\* a failed result whose message says that no configuration was provided, and
\* calls neither send_config_set nor save_config.
C25_Original ==
    \A i \in 1..N :
        (NoPayload /\ Returned(i))
            => /\ ~op[i].result.success
               /\ op[i].result.message = NoPayloadMessage
               /\ NothingSent(i)

\* C25: configure_device with neither commands nor template returns a failed
\* result and calls neither send_config_set nor save_config; the message says
\* that no configuration was provided when the session was connected, and
\* names the earlier failure (descriptor, credentials, connect) otherwise.
C25_NoPayloadFails ==
    \A i \in 1..N :
        (NoPayload /\ Returned(i))
            => /\ ~op[i].result.success
               /\ NothingSent(i)
               /\ ConnectSucceeded(i) <=> op[i].result.message = NoPayloadMessage

\* a connected device, no payload: the failure names the missing configuration
C25_Witness ==
    \E i \in 1..N :
        /\ NoPayload
        /\ ~dry_run
        /\ Returned(i)
        /\ ConnectSucceeded(i)
        /\ op[i].result.message = NoPayloadMessage
        /\ NothingSent(i)

\* the last method called on the NetworkDevice
Last == network_device.last

\* C26: send_command, send_config_set, send_config_from_file and save_config
\* call the underlying connection only while the device is connected (a
\* connect has returned and no disconnect was called since); in every other
\* state they raise DeviceConnectionError "Not connected" and is_alive
\* returns False.
C26_OnlyWhileConnected ==
    /\ Last.method \in SessionMethods =>
           /\ Last.reached => Last.was_connected
           /\ ~Last.was_connected =>
                  Last.raised = Exc("DeviceConnectionError", "Not connected to ")
    /\ (Last.method = "is_alive" /\ ~Last.was_connected) => Last.value = "False"

\* C27: disconnect never raises and leaves self.connection None, also when
\* the disconnect of the underlying connection raises; it calls that
\* disconnect once on the connection the device held, none without a
\* connection, and no connection is ever disconnected twice.
C27_DisconnectIdempotent ==
    /\ Last.method = "disconnect" =>
           /\ Last.raised = NoError
           /\ network_device.connection = NoConnection
           /\ Last.reached <=> Last.before # NoConnection
           /\ Last.before # NoConnection =>
                  network_device.handles[Last.before].disconnects = 1
    /\ \A h \in DOMAIN network_device.handles :
           network_device.handles[h].disconnects <= 1

\* a disconnect of a connected device whose underlying disconnect raised
C27_Witness ==
    /\ Last.method = "disconnect"
    /\ Last.was_connected
    /\ Last.reached
    /\ Last.failed
    /\ network_device.connection = NoConnection
    /\ network_device.handles[Last.before].disconnects = 1

\* C28: a connect that fails raises DeviceConnectionError whatever the class
\* of the library's exception; for a timeout the message names the connection
\* timeout and for an authentication failure the failed authentication.
C28_ConnectErrors ==
    (Last.method = "connect" /\ Last.cause # None) =>
        /\ Last.raised.kind = "DeviceConnectionError"
        /\ Last.cause = "NetmikoTimeoutException"
               => Last.raised.text = "Connection timeout to "
        /\ Last.cause = "NetmikoAuthenticationException"
               => Last.raised.text = "Authentication failed for "
        /\ Last.cause \in { "SSHException", "ValueError" }
               => Last.raised.text \in { "SSH error connecting to ",
                                         "Unexpected error connecting to " }

\* a connect refused for its credentials
C28_Witness ==
    /\ Last.method = "connect"
    /\ Last.cause = "NetmikoAuthenticationException"
    /\ Last.raised = Exc("DeviceConnectionError", "Authentication failed for ")

\* what the statement counts as a failure of the set-up of a run
SetupFailures == { "no command", "missing credentials", "inventory not found", "no payload" }

\* C29 as stated: a command exits with a non-zero status only for a failure
\* of the set-up (missing credentials, missing inventory file, no payload for
\* the single-device command).
C29_Original == cli.status = "1" => cli.why \in SetupFailures

\* C29: configure-inventory and backup exit with a non-zero status only for
\* a failure of the set-up and otherwise print the summary with the failures
\* of the devices counted in it and exit with 0; the single-device commands
\* configure and validate exit with 1 also when their device or their
\* template fails.
C29_ExitStatus ==
    /\ (cli.pc = "exited" /\ cli.args.command \in BatchCommands) =>
           /\ cli.status = "1" => cli.why \in SetupFailures
           /\ cli.status = "0" =>
                  /\ cli.summary.printed
                  /\ cli.summary.successful + cli.summary.failed
                         = cli.summary.total_devices
           /\ cli.status = "1"
                  <=> (~cli.credentials \/ cli.args.inventory = "missing")
    /\ cli.status = "1" =>
           \/ cli.why \in SetupFailures
           \/ /\ cli.why \in { "device", "template" }
              /\ cli.args.command \in { "configure", "validate" }

\* configure-inventory has returned with status 0 and a summary that counts a
\* failed device
C29_Witness ==
    /\ cli.pc = "exited"
    /\ cli.args.command = "configure-inventory"
    /\ cli.status = "0"
    /\ cli.summary.printed
    /\ cli.summary.failed >= 1

\* the calls operation i has made on its session, in order
SessionCalls(i) ==
    SelectSeq(op[i].calls,
              LAMBDA c : c \in { "connect", "send_config_set", "save_config",
                                 "verify_connectivity", "get_device_info",
                                 "disconnect" })

\* the session calls of a configure operation whose stages all succeed, the
\* stages that are switched off left out
StageCalls ==
    <<"connect">>
        \o (IF dry_run THEN <<>> ELSE <<"send_config_set">>)
        \o (IF call.save_config /\ ~dry_run THEN <<"save_config">> ELSE <<>>)
        \o (IF call.validate_after /\ ~dry_run
            THEN <<"verify_connectivity", "get_device_info">> ELSE <<>>)
        \o <<"disconnect">>

IsPrefix(s, t) == Len(s) <= Len(t) /\ s = SubSeq(t, 1, Len(s))

\* C30: at every moment the session calls a configure operation has made are
\* an initial part of connect, send_config_set, save_config, validation,
\* disconnect with the switched-off stages left out; an operation that
\* succeeded made all of them, and an operation in which a call raised has
\* returned, the failed call being its last.
C30_StageOrder ==
    \A i \in 1..N :
        call.operation = "configure" =>
            /\ IsPrefix(SessionCalls(i), StageCalls)
            /\ (Returned(i) /\ op[i].result.success) => SessionCalls(i) = StageCalls
            /\ op[i].error.kind # None =>
                   /\ Returned(i)
                   /\ "disconnect" \notin Range(op[i].calls)

\* every stage switched on: the five stages were run in order
C30_Witness ==
    \E i \in 1..N :
        /\ call.operation = "configure"
        /\ Returned(i)
        /\ SessionCalls(i) = <<"connect", "send_config_set", "save_config",
                               "verify_connectivity", "get_device_info", "disconnect">>

\* device operation i is run by a thread of the pool and takes a step
WorkerStep(i) ==
    /\ call.operation # None
    /\ call.parallel
    /\ op[i].pc # "new"
    /\ op'[i] # op[i]

\* C31: the list `results` of a batch only ever grows at its end, by one
\* entry at a time, and it is the calling thread that appends (its collection
\* loop in parallel mode, its loop over the devices in sequential mode) while
\* no device operation takes a step; a step of a worker changes nothing but
\* its own device operation; the summary returns the list as it is.
C31_AppendOnlySingleWriter ==
    [][/\ results' # results =>
              /\ Len(results') = Len(results) + 1
              /\ SubSeq(results', 1, Len(results)) = results
              /\ op' = op
              /\ main_pc = IF call.parallel THEN "collect" ELSE "sequential"
       /\ \A i \in 1..N :
              WorkerStep(i) =>
                  /\ UNCHANGED << results, summary, task_results, futures, yielded,
                                  idx, main_pc, call, devices, dry_run >>
                  /\ \A j \in (1..N) \ { i } : op'[j] = op[j]
       /\ main_pc' = "done" => summary'.results = results']_vars

\* a parallel batch of two devices has returned: both results were appended
\* by the collection loop, the second device's first
C31_Witness ==
    /\ Done
    /\ call.parallel
    /\ N = 2
    /\ Len(results) = 2
    /\ results[1] = op[2].result
    /\ results[2] = op[1].result

\* the positions of a call in the calls of operation i
CallsAt(i, c) == { k \in DOMAIN op[i].calls : op[i].calls[k] = c }

\* C32: in configure_device and in the backup of a device alike, the
\* credentials of the environment are read at most once per device operation,
\* exactly once when the descriptor lacks a username or a password and has a
\* host, and before connect; connect is never called, and no session exists,
\* for a device whose username or password can be resolved from neither.
C32_CredentialsBeforeConnect ==
    \A i \in 1..N :
        /\ Cardinality(CallsAt(i, "get_device_credentials")) <= 1
        /\ \A k \in CallsAt(i, "connect") :
               /\ devices[i].has_creds \/ env_creds
               /\ ~devices[i].has_creds =>
                      \E g \in CallsAt(i, "get_device_credentials") : g < k
               /\ devices[i].has_creds => CallsAt(i, "get_device_credentials") = {}
        /\ NoCredentials(i) =>
               /\ CallsAt(i, "connect") = {}
               /\ op[i].session = "none"
               /\ Returned(i) => CallsAt(i, "get_device_credentials") # {}

\* a backup of a device whose descriptor has no credentials: they were read
\* from the environment once, then connect was called
C32_Witness ==
    \E i \in 1..N :
        /\ call.operation = "backup"
        /\ ~devices[i].has_creds
        /\ Returned(i)
        /\ Len(op[i].calls) >= 2
        /\ SubSeq(op[i].calls, 1, 2) = <<"get_device_credentials", "connect">>

\* C33: after a connect that raised DeviceConnectionError the device holds
\* no connection (self.connection is None), also when the connection was
\* opened and the enable step failed, and every connection opened by a failed
\* connect has been closed.
C33_FailedConnectLeavesNone ==
    (Last.method = "connect" /\ Last.raised.kind = "DeviceConnectionError") =>
        /\ network_device.connection = NoConnection
        /\ Last.reached =>
               network_device.handles[Len(network_device.handles)].disconnects >= 1

\* configure operation i has a result
HasResult(i) == call.operation = "configure" /\ op[i].pc \notin { "new", "queued" }

\* the whole pipeline of configure operation i ran: the connect succeeded, a
\* non-empty command list was resolved, the stages that are switched on
\* completed and disconnect was called
PipelineRan(i) ==
    /\ ConnectSucceeded(i)
    /\ op[i].commands # <<>>
    /\ op[i].error.kind = None
    /\ ~dry_run => "send_config_set" \in Range(op[i].calls)
    /\ (~dry_run /\ call.save_config) => "save_config" \in Range(op[i].calls)
    /\ (~dry_run /\ call.validate_after) =>
           /\ "verify_connectivity" \in Range(op[i].calls)
           /\ <<"connectivity", "True">> \in op[i].result.validation
    /\ "disconnect" \in Range(op[i].calls)
    /\ op[i].session = "closed"

\* C34: the result of configure_device has success true exactly when the
\* whole pipeline ran (connect, a non-empty command list, send_config_set
\* outside dry-run, save_config when it is on, a passed connectivity check
\* when validate_after is on outside dry-run, disconnect); a result of an
\* operation that is still running or that raised has success false.
C34_SuccessIffPipelineRan ==
    \A i \in 1..N :
        HasResult(i) =>
            /\ op[i].result.success <=> PipelineRan(i)
            /\ op[i].result.success => Returned(i)
            /\ op[i].error.kind # None => ~op[i].result.success

\* a batch with one device that went through every stage and one that failed
\* after its connect
C34_Witness ==
    /\ Done /\ call.operation = "configure" /\ N = 2
    /\ ~dry_run /\ call.save_config /\ call.validate_after
    /\ \E i, j \in 1..N :
           /\ op[i].result.success /\ PipelineRan(i)
           /\ ~op[j].result.success /\ ConnectSucceeded(j)

\* the device operations whose session is open: connected and not yet
\* disconnected
OpenSessions == { i \in 1..N : op[i].session = "open" }

\* C35: at no moment of a batch are more than max_workers sessions open in
\* parallel mode, or more than one in sequential mode, and when the batch
\* has returned its summary no session is open.
C35_OpenSessionsBounded ==
    call.operation # None =>
        /\ Cardinality(OpenSessions) <= IF call.parallel THEN call.max_workers ELSE 1
        /\ Done => OpenSessions = {}

\* the calls of the validation stage
ValidationCalls == { "verify_connectivity", "get_device_info" }

\* C36: in dry-run the validation is never run, also when validate_after is
\* true: no validation call is made on the device and the validation map of
\* the result is empty; the map is empty as well when validate_after is
\* false and when the operation failed.
C36_NoValidationInDryRun ==
    \A i \in 1..N :
        HasResult(i) =>
            /\ Range(op[i].calls) \cap ValidationCalls # {} =>
                   ~dry_run /\ call.validate_after
            /\ (dry_run \/ ~call.validate_after \/ op[i].error.kind # None) =>
                   op[i].result.validation = {}

\* a dry run with validate_after that succeeded without validation
C36_Witness ==
    \E i \in 1..N :
        /\ HasResult(i) /\ Returned(i)
        /\ dry_run /\ call.validate_after
        /\ op[i].result.success
        /\ op[i].result.output = <<DryRunOutput>>
        /\ op[i].result.validation = {}

\* every session call made so far has returned or raised
NoSessionCallHangs == Hung = {}

\* the summary is returned, every device operation was run and has returned,
\* and the result of each is in the results exactly once
SummaryOfEveryTask ==
    IF main_pc = "done"
    THEN /\ summary = Summarize(results)
         /\ Len(summary.results) = N
         /\ \A i \in 1..N :
                /\ Returned(i)
                /\ Cardinality({ k \in 1..Len(results) : results[k] = op[i].result }) = 1
         /\ call.parallel => (Len(futures) = N /\ yielded = 1..N)
    ELSE FALSE

\* C37: under fair scheduling, if no session call hangs, a batch (configure
\* or backup, sequential or parallel, any number of devices and of workers)
\* eventually returns its summary, every task having been run and collected
\* exactly once.
C37_BatchTerminates == ([]NoSessionCallHangs) => <>SummaryOfEveryTask

\* a parallel batch of two devices on one worker has returned
C37_Witness ==
    /\ SummaryOfEveryTask
    /\ NoSessionCallHangs
    /\ call.parallel
    /\ call.max_workers = 1
    /\ N = 2

\* self.results is empty, or the summary of the configure batch that returned
StoredResults ==
    task_results =
        IF main_pc = "done" /\ call.operation = "configure" THEN summary ELSE EmptyDict

====
